---- MODULE Spec2Model ----
(***************************************************************************)
(* Verification model of rocket-solver: the coupled internal/exterior      *)
(* ballistics loop, the ballistics-only loop, the RK4 chamber-pressure     *)
(* solver with the Seidel derivative, and the grain/segment data model.    *)
(*                                                                         *)
(* Lengths are integers (millimetres), times are integer ticks, and        *)
(* volumes/masses are in units of (pi/4) * density * mm^3, so that the     *)
(* sign tests of the code are exact.                                       *)
(***************************************************************************)
EXTENDS Integers, Sequences, FiniteSets, TLC

(***************************************************************************)
(* Bounds of the model.                                                    *)
(***************************************************************************)
\* iterations of a simulation loop explored in one run
MaxSteps == 4
\* largest burn rate (mm per tick) the propellant law yields in one step
MaxRate == 2
\* largest altitude the vehicle reaches
MaxAlt == 2
\* largest thrust sample
MaxThrust == 1
\* largest magnitude of an input of the pressure solver
MaxIn == 2
\* square roots are rounded down to a multiple of 1/SqrtDen
SqrtDen == 4
\* segments added to a grain one by one
MaxSegments == 3
\* largest web distance (mm) a segment is queried at
MaxX == 7
\* longest burn-area history handed to getBurnProfile
MaxHist == 3
\* largest number of time indices of the correction-factor arrays
MaxIndex == 2
\* largest number of samples in an array argument
MaxSamples == 2
\* bits of the significand of the binary floating-point numbers (53 for a
\* Python float; the model rounds the same way on a shorter significand)
Precision == 8
\* scenarios generated in one behaviour
MaxScenarios == 3
\* the latest sample time of an exported curve, in hundredths of a second
MaxTick == 4
\* the largest eng_res
MaxRes == 4

VARIABLES
    \* ---- simulation (InternalBallisticsCoupled / InternalBallistics) ----
    pc,          \* "idle" (constructed), "loop" (inside run), "done" (returned)
    t,           \* self.t, the time array
    i,           \* loop index of run
    d_t,         \* self.d_t
    dd_t,        \* self.dd_t
    \* ---- motor operation (SRMOperation) ----
    grain,       \* the motor's grain: sequence of [D, d, L] tube segments
    web,         \* current web distance
    m_prop,      \* propellant mass history
    thrust,      \* thrust history
    end_thrust,  \* flag set by the motor operation
    motorCalls,  \* number of motor_operation.iterate calls made
    \* ---- ballistic operation (Ballistic1DOperation) ----
    y,           \* altitude history
    ballArgs,    \* arguments of each ballistic_operation.iterate call, in order
    \* ---- pressure solver (SRMInternalBallisticsSolver) ----
    solMode,     \* number type of the arguments: "float" or "float64"
    solIn,       \* arguments of solve
    solOut,      \* outcome of solve: exception, returned tuple, evaluations
    \* ---- grain and segments ----
    segObj,      \* the segment object at hand (<<>> when none was built)
    segments,    \* Grain.segments
    addCalls,    \* number of add_segment calls made
    added,       \* the arguments of the add_segment calls, in call order
    ctorArgs,    \* attributes of the last BatesSegment construction attempt
    ctorErr,     \* its outcome: "none" or the exception raised
    \* ---- one grain segment and the queries made of it ----
    qSeg,        \* the attributes of the segment
    maps,        \* self.maps: <<>> is None, <<v>> the computed value
    mask,        \* self.mask, likewise
    regression_map,         \* self.regression_map, likewise
    face_area_interp_func,  \* self.face_area_interp_func, likewise
    cacheWrites, \* how often each of the four caches was assigned
    qLast,       \* the last query: operation, web distance, outcome
    qFace,       \* the <<web distance, value>> pairs get_face_area returned
    \* ---- a call of a module-level function ----
    callIn,      \* its arguments
    callOut,     \* its outcome
    \* ---- MonteCarloSimulation ----
    mcHeap,      \* the objects in memory: identity -> [cls, attrs]
    parameters,  \* self.parameters
    number_of_scenarios,   \* self.number_of_scenarios
    scenarios,   \* self.scenarios
    results,     \* self.results
    object_store,          \* self._object_store: <<key, value>> entries
    mcPc,        \* "idle", or "run" inside the loop of run
    mcLeft,      \* iterations of the loop of run still to make
    mcLog        \* history: run calls completed, direct generate_scenario
                 \* calls, the _process_nested_parameters calls of the last
                 \* generate_scenario

simVars   == <<pc, t, i, d_t, dd_t>>
motorVars == <<grain, web, m_prop, thrust, end_thrust, motorCalls>>
ballVars  == <<y, ballArgs>>
solverVars == <<solMode, solIn, solOut>>
grainVars == <<segObj, segments, addCalls, added, ctorArgs, ctorErr>>
queryVars == <<qSeg, maps, mask, regression_map, face_area_interp_func,
               cacheWrites, qLast, qFace>>
callVars  == <<callIn, callOut>>
mcVars    == <<mcHeap, parameters, number_of_scenarios, scenarios, results,
               object_store, mcPc, mcLeft, mcLog>>
extVars   == <<queryVars, callVars, mcVars>>
runVars   == <<simVars, motorVars, ballVars>>
vars == <<simVars, motorVars, ballVars, solverVars, grainVars, queryVars,
          callVars, mcVars>>

Last(s) == s[Len(s)]

RECURSIVE SumSeq(_)
SumSeq(s) == IF s = <<>> THEN 0 ELSE s[1] + SumSeq(Tail(s))

\* the solver and the grain before anything is done with them
NotCalled == [exc |-> "not called", ret |-> <<>>, calls |-> <<>>]
SolverIdle ==
    /\ solMode = "float"
    /\ solIn = <<>>
    /\ solOut = NotCalled
GrainIdle ==
    /\ segObj = <<>>
    /\ segments = <<>>
    /\ addCalls = 0
    /\ added = <<>>
    /\ ctorArgs = <<>>
    /\ ctorErr = "none"
\* no segment under query
NoQuery == [op |-> "none", x |-> 0, exc |-> "none", ret |-> <<>>]
QueryIdle ==
    /\ qSeg = <<>>
    /\ maps = <<>>
    /\ mask = <<>>
    /\ regression_map = <<>>
    /\ face_area_interp_func = <<>>
    /\ cacheWrites = [maps |-> 0, mask |-> 0, regression_map |-> 0,
                      face_area_interp_func |-> 0]
    /\ qLast = NoQuery
    /\ qFace = {}
\* no function called
CallIdle ==
    /\ callIn = <<>>
    /\ callOut = <<>>
\* no Monte Carlo simulation constructed
McIdle ==
    /\ mcHeap = <<>>
    /\ parameters = <<>>
    /\ number_of_scenarios = 0
    /\ scenarios = <<>>
    /\ results = <<>>
    /\ object_store = <<>>
    /\ mcPc = "idle"
    /\ mcLeft = 0
    /\ mcLog = [runs |-> 0, direct |-> 0, uuid |-> 0, nested |-> <<>>]
ExtIdle ==
    /\ QueryIdle
    /\ CallIdle
    /\ McIdle
RunIdle ==
    /\ pc = "idle"
    /\ t = <<0>>
    /\ i = 0
    /\ d_t = 1
    /\ dd_t = 1
    /\ grain = <<>>
    /\ web = 0
    /\ m_prop = <<>>
    /\ thrust = <<>>
    /\ end_thrust = FALSE
    /\ motorCalls = 0
    /\ y = <<>>
    /\ ballArgs = <<>>

(***************************************************************************)
(* Tube-burning (BATES) geometry.                                          *)
(***************************************************************************)
\* BATES.grainVolume without the constant factor pi/4
grainVolume(x, seg) ==
    ((seg.D * seg.D) - ((seg.d + 2 * x) * (seg.d + 2 * x))) * (seg.L - 2 * x)

\* BatesSegment.get_web_thickness (doubled diameters keep it an integer)
get_web_thickness(seg) == (seg.D - seg.d) \div 2

\* volume of one segment as the motor operation sees it: a segment burnt past
\* its web thickness is spent and contributes nothing
SegmentVolume(x, seg) ==
    IF x > get_web_thickness(seg) THEN 0 ELSE grainVolume(x, seg)

RECURSIVE PropellantVolume(_, _)
PropellantVolume(x, g) ==
    IF g = <<>> THEN 0
    ELSE SegmentVolume(x, g[1]) + PropellantVolume(x, Tail(g))

\* grains the motor is built with
Seg(D, d, L) == [D |-> D, d |-> d, L |-> L]
Grains ==
    { <<Seg(6, 2, 8)>>,
      <<Seg(6, 4, 2)>>,
      <<Seg(8, 2, 4)>>,
      <<Seg(10, 4, 12)>>,
      <<Seg(6, 2, 8), Seg(6, 4, 8)>>,
      <<Seg(8, 2, 8), Seg(8, 6, 2)>> }

(***************************************************************************)
(* Motor operation: one time step of the internal ballistics.              *)
(***************************************************************************)
ThrustEndedNever(mass) == mass < 0

\* end-of-thrust test of a step: the propellant is exhausted
ThrustEnded(mass) == mass <= 0

\* SRMOperation.iterate(d_t, P_ext): the burn rate r is the propellant's rate
\* at the current chamber pressure, f the thrust of the step
MotorIterate(dt, r, f) ==
    LET x    == web + r * dt
        mass == PropellantVolume(x, grain)
    IN  /\ web' = x
        /\ m_prop' = Append(m_prop, mass)
        /\ thrust' = Append(thrust, f)
        /\ end_thrust' = ThrustEnded(mass)
        /\ motorCalls' = motorCalls + 1
        /\ UNCHANGED grain

\* a freshly constructed motor operation
MotorInit(g) ==
    /\ grain' = g
    /\ web' = 0
    /\ m_prop' = <<PropellantVolume(0, g)>>
    /\ thrust' = <<0>>
    /\ end_thrust' = FALSE
    /\ motorCalls' = 0

(***************************************************************************)
(* Ballistic operation: one time step of the 1-DOF flight.                 *)
(***************************************************************************)
\* Ballistic1DOperation.iterate(propellant_mass, thrust, d_t): appends the new
\* altitude ny
BallisticIterate(mass, f, dt, ny) ==
    /\ y' = Append(y, ny)
    /\ ballArgs' = Append(ballArgs, [m |-> mass, f |-> f, dt |-> dt])

Altitudes(cur) == { a \in {cur - 1, cur, cur + 1} : a >= -1 /\ a <= MaxAlt }

(***************************************************************************)
(* InternalBallisticsCoupled.run                                           *)
(***************************************************************************)
LoopConditionAnd(yi, mlast) == yi >= 0 /\ mlast > 0

\* the while condition of run, on y[i] and m_prop[-1]
LoopCondition(yi, mlast) == yi >= 0 \/ mlast > 0

\* time value appended in the burning branch: t[i] + d_t
BurnTime == Append(t, t[i + 1] + d_t)

\* time value left in the array by the coasting branch: the appended value is
\* overwritten with t[-2] + dd_t * d_t
CoastTime ==
    LET a == Append(t, t[i + 1] + d_t)
    IN  [a EXCEPT ![Len(a)] = a[Len(a) - 1] + dd_t * d_t]

CoastStepPlain == d_t

\* the time step handed to the ballistic operation after end of thrust
CoastStep == d_t * dd_t

\* run(), up to the loop: both operations are built anew, i = 0
CoupledStart ==
    /\ pc = "idle"
    /\ pc' = "loop"
    /\ i' = 0
    /\ \E g \in Grains : MotorInit(g)
    /\ y' = <<0>>
    /\ ballArgs' = <<>>
    /\ UNCHANGED <<t, d_t, dd_t>>
    /\ UNCHANGED <<solverVars, grainVars, extVars>>

\* one iteration with end_thrust False: the motor burns for d_t
CoupledBurn ==
    /\ pc = "loop"
    /\ i < MaxSteps
    /\ LoopCondition(y[i + 1], Last(m_prop))
    /\ end_thrust = FALSE
    /\ t' = BurnTime
    /\ \E r \in 1..MaxRate, f \in 1..MaxThrust : MotorIterate(d_t, r, f)
    /\ \E ny \in Altitudes(Last(y)) :
          BallisticIterate(m_prop'[i + 1], thrust'[i + 1], d_t, ny)
    /\ i' = i + 1
    /\ UNCHANGED <<pc, d_t, dd_t>>
    /\ UNCHANGED <<solverVars, grainVars, extVars>>

\* one iteration with end_thrust True: the vehicle coasts
CoupledCoast ==
    /\ pc = "loop"
    /\ i < MaxSteps
    /\ LoopCondition(y[i + 1], Last(m_prop))
    /\ end_thrust # FALSE
    /\ t' = CoastTime
    /\ \E ny \in Altitudes(Last(y)) : BallisticIterate(0, 0, CoastStep, ny)
    /\ i' = i + 1
    /\ UNCHANGED <<pc, d_t, dd_t, motorVars>>
    /\ UNCHANGED <<solverVars, grainVars, extVars>>

\* the loop condition is false: run returns
CoupledReturn ==
    /\ pc = "loop"
    /\ ~LoopCondition(y[i + 1], Last(m_prop))
    /\ pc' = "done"
    /\ UNCHANGED <<t, i, d_t, dd_t, motorVars, ballVars>>
    /\ UNCHANGED <<solverVars, grainVars, extVars>>

InitCoupled ==
    /\ pc = "idle"
    /\ t = <<0>>
    /\ i = 0
    /\ d_t \in {1, 2}
    /\ dd_t \in {2, 3}
    /\ grain = <<>>
    /\ web = 0
    /\ m_prop = <<>>
    /\ thrust = <<>>
    /\ end_thrust = FALSE
    /\ motorCalls = 0
    /\ y = <<>>
    /\ ballArgs = <<>>
    /\ SolverIdle
    /\ GrainIdle
    /\ ExtIdle

NextCoupled ==
    \/ CoupledStart
    \/ CoupledBurn
    \/ CoupledCoast
    \/ CoupledReturn

Spec == InitCoupled /\ [][NextCoupled]_vars

(***************************************************************************)
(* C1: InternalBallisticsCoupled.run leaves its main loop only when the    *)
(* last propellant mass is <= 0 and the altitude at the current index is   *)
(* < 0; while the mass is > 0 or the altitude is >= 0, the step taken from *)
(* the loop head is another iteration.                                     *)
(***************************************************************************)
C1_LoopExit ==
    /\ [](pc = "done" => (Last(m_prop) <= 0 /\ y[i + 1] < 0))
    /\ [][(pc = "loop" /\ (Last(m_prop) > 0 \/ y[i + 1] >= 0))
            => (pc' = "loop" /\ i' = i + 1 /\ Len(y') = Len(y) + 1)]_vars

\* the loop has been left after at least one burning and one coasting iteration
C1_Witness ==
    /\ pc = "done"
    /\ motorCalls > 0
    /\ i > motorCalls
    /\ Last(m_prop) <= 0
    /\ y[i + 1] < 0

(***************************************************************************)
(* C2: once end_thrust is True, every later iteration of the coupled loop  *)
(* makes no motor_operation.iterate call, hands propellant mass 0, thrust  *)
(* 0 and the time step d_t*dd_t to ballistic_operation.iterate, advances   *)
(* the time array by d_t*dd_t, and end_thrust stays True.                  *)
(***************************************************************************)
C2_CoastAfterEndThrust ==
    [][(pc = "loop" /\ end_thrust = TRUE /\ i' = i + 1)
        => /\ motorCalls' = motorCalls
           /\ m_prop' = m_prop
           /\ web' = web
           /\ end_thrust' = TRUE
           /\ Len(ballArgs') = Len(ballArgs) + 1
           /\ Last(ballArgs') = [m |-> 0, f |-> 0, dt |-> d_t * dd_t]
           /\ Len(t') = Len(t) + 1
           /\ Last(t') = Last(t) + d_t * dd_t]_vars

\* a coasting iteration has run after the end of thrust
C2_Witness ==
    /\ end_thrust = TRUE
    /\ motorCalls > 0
    /\ Len(ballArgs) > motorCalls
    /\ Last(ballArgs) = [m |-> 0, f |-> 0, dt |-> d_t * dd_t]
    /\ Last(t) = t[Len(t) - 1] + d_t * dd_t

(***************************************************************************)
(* InternalBallistics.run: the ballistics-only simulation                  *)
(***************************************************************************)
\* run(), up to the loop
IBStart ==
    /\ pc = "idle"
    /\ pc' = "loop"
    /\ i' = 0
    /\ \E g \in Grains : MotorInit(g)
    /\ UNCHANGED <<t, d_t, dd_t, ballVars>>
    /\ UNCHANGED <<solverVars, grainVars, extVars>>

\* one iteration: the loop runs until the motor operation flags end_thrust
IBStep ==
    /\ pc = "loop"
    /\ i < MaxSteps
    /\ ~end_thrust
    /\ t' = BurnTime
    /\ \E r \in 1..MaxRate, f \in 1..MaxThrust : MotorIterate(d_t, r, f)
    /\ i' = i + 1
    /\ UNCHANGED <<pc, d_t, dd_t, ballVars>>
    /\ UNCHANGED <<solverVars, grainVars, extVars>>

\* end_thrust is set: run returns (t, motor_operation)
IBReturn ==
    /\ pc = "loop"
    /\ end_thrust
    /\ pc' = "done"
    /\ UNCHANGED <<t, i, d_t, dd_t, motorVars, ballVars>>
    /\ UNCHANGED <<solverVars, grainVars, extVars>>

NextIB ==
    \/ IBStart
    \/ IBStep
    \/ IBReturn

\* the loop is sequential code: a step that can be taken is taken
\* InternalBallisticsParams carries d_t only: dd_t is not used
InitIB ==
    /\ pc = "idle"
    /\ t = <<0>>
    /\ i = 0
    /\ d_t \in {1, 2, 3}
    /\ dd_t = 1
    /\ grain = <<>>
    /\ web = 0
    /\ m_prop = <<>>
    /\ thrust = <<>>
    /\ end_thrust = FALSE
    /\ motorCalls = 0
    /\ y = <<>>
    /\ ballArgs = <<>>
    /\ SolverIdle
    /\ GrainIdle
    /\ ExtIdle

BallisticsOnlySpec == InitIB /\ [][NextIB]_vars /\ WF_vars(NextIB)

(***************************************************************************)
(* C3: a ballistics-only run terminates; when it has terminated end_thrust *)
(* is True and the remaining propellant mass is <= 0; end_thrust is never  *)
(* True while the remaining propellant mass is > 0.                        *)
(***************************************************************************)
C3_Terminates ==
    /\ <>(pc = "done")
    /\ [](pc = "done" => (end_thrust /\ Last(m_prop) <= 0))
    /\ [](end_thrust => Last(m_prop) <= 0)

\* a run that needed several steps has terminated
C3_Witness ==
    /\ pc = "done"
    /\ motorCalls >= 2
    /\ end_thrust
    /\ m_prop[Len(m_prop) - 1] > 0
    /\ Last(m_prop) <= 0

(***************************************************************************)
(* Floating-point values of the pressure solver.                           *)
(*                                                                         *)
(* A value is a record [k, n, d]: kind "fin" is the rational n/d (d > 0,   *)
(* lowest terms); "inf", "ninf" and "nan" are the IEEE specials; "cplx" is *)
(* a Python complex number (the result of a negative float raised to 0.5); *)
(* "ZeroDivisionError" and "TypeError" are raised exceptions, which every  *)
(* operation passes on.  Rounding is modelled only for square roots, and   *)
(* the sign of zero is not modelled.                                       *)
(*                                                                         *)
(* The arithmetic depends on the type of the numbers handed to the solver: *)
(* "float" is the built-in Python float, "float64" is numpy.float64.       *)
(***************************************************************************)
Abs(a) == IF a < 0 THEN -a ELSE a

RECURSIVE GCD(_, _)
GCD(a, b) == IF b = 0 THEN a ELSE GCD(b, a % b)

Special(kind) == [k |-> kind, n |-> 0, d |-> 1]

\* the rational n/d, d # 0, in lowest terms with a positive denominator
Fin(n, d) ==
    LET g == GCD(Abs(n), Abs(d))
        s == IF d < 0 THEN -1 ELSE 1
    IN  [k |-> "fin", n |-> (s * n) \div g, d |-> (s * d) \div g]

Num(a) == Fin(a, 1)

IsExc(a) == a.k \in {"ZeroDivisionError", "TypeError"}
IsFin(a) == a.k = "fin"

\* -1, 0, 1 for "ninf"/negative, zero, "inf"/positive
Sign(a) ==
    IF a.k = "inf" THEN 1
    ELSE IF a.k = "ninf" THEN -1
    ELSE IF a.n > 0 THEN 1 ELSE IF a.n < 0 THEN -1 ELSE 0

Signed(s) == IF s > 0 THEN Special("inf") ELSE Special("ninf")

\* a + b
Add(a, b) ==
    IF IsExc(a) THEN a
    ELSE IF IsExc(b) THEN b
    ELSE IF a.k = "cplx" \/ b.k = "cplx" THEN Special("cplx")
    ELSE IF a.k = "nan" \/ b.k = "nan" THEN Special("nan")
    ELSE IF IsFin(a) /\ IsFin(b) THEN
        LET g == GCD(a.d, b.d)
        IN  Fin(a.n * (b.d \div g) + b.n * (a.d \div g), (a.d \div g) * b.d)
    ELSE IF IsFin(a) THEN b
    ELSE IF IsFin(b) THEN a
    ELSE IF a.k = b.k THEN a
    ELSE Special("nan")

\* a * b
Mul(a, b) ==
    IF IsExc(a) THEN a
    ELSE IF IsExc(b) THEN b
    ELSE IF a.k = "cplx" \/ b.k = "cplx" THEN Special("cplx")
    ELSE IF a.k = "nan" \/ b.k = "nan" THEN Special("nan")
    ELSE IF IsFin(a) /\ IsFin(b) THEN
        LET g == GCD(Abs(a.n), b.d)
            h == GCD(Abs(b.n), a.d)
        IN  Fin((a.n \div g) * (b.n \div h), (a.d \div h) * (b.d \div g))
    ELSE IF Sign(a) = 0 \/ Sign(b) = 0 THEN Special("nan")
    ELSE Signed(Sign(a) * Sign(b))

\* a - b
Sub(a, b) == Add(a, Mul(Num(-1), b))

\* a / b: a zero divisor raises for Python floats and gives inf/nan for numpy
Div(m, a, b) ==
    IF IsExc(a) THEN a
    ELSE IF IsExc(b) THEN b
    ELSE IF IsFin(b) /\ b.n = 0 THEN
        IF m = "float" THEN Special("ZeroDivisionError")
        ELSE IF a.k = "nan" \/ Sign(a) = 0 THEN Special("nan")
        ELSE Signed(Sign(a))
    ELSE IF a.k = "cplx" \/ b.k = "cplx" THEN Special("cplx")
    ELSE IF a.k = "nan" \/ b.k = "nan" THEN Special("nan")
    ELSE IF IsFin(a) /\ IsFin(b) THEN Mul(a, Fin(b.d, b.n))
    ELSE IF IsFin(a) THEN Num(0)
    ELSE IF IsFin(b) THEN Signed(Sign(a) * Sign(b))
    ELSE Special("nan")

\* largest s with s*s <= n
ISqrt(n) == CHOOSE s \in 0..n : s * s <= n /\ (s + 1) * (s + 1) > n

\* a ** 0.5: the root of a negative number is complex for Python floats and
\* nan for numpy; pow(-inf, 0.5) is +inf
Sqrt(m, a) ==
    IF IsExc(a) \/ a.k \in {"cplx", "nan", "inf"} THEN a
    ELSE IF a.k = "ninf" THEN Special("inf")
    ELSE IF a.n < 0 THEN
        IF m = "float" THEN Special("cplx") ELSE Special("nan")
    ELSE Fin(ISqrt((a.n * SqrtDen * SqrtDen) \div a.d), SqrtDen)

\* a ** e for the exponents the gas properties yield: 1/2 and the naturals
RECURSIVE Pow(_, _, _)
Pow(m, a, e) ==
    IF IsExc(a) THEN a
    ELSE IF IsExc(e) THEN e
    ELSE IF e = Fin(1, 2) THEN Sqrt(m, a)
    ELSE IF e = Num(0) THEN Num(1)
    ELSE Mul(a, Pow(m, a, Sub(e, Num(1))))

\* a <= b: "true", "false", or the TypeError of an ordering of complex numbers
Le(a, b) ==
    IF IsExc(a) THEN a.k
    ELSE IF IsExc(b) THEN b.k
    ELSE IF a.k = "cplx" \/ b.k = "cplx" THEN "TypeError"
    ELSE IF a.k = "nan" \/ b.k = "nan" THEN "false"
    ELSE IF IsFin(a) /\ IsFin(b) THEN
        (IF Sign(Add(a, Mul(Num(-1), b))) <= 0 THEN "true" ELSE "false")
    ELSE IF a.k = "ninf" \/ b.k = "inf" THEN "true"
    ELSE "false"

(***************************************************************************)
(* CP_Seidel: the Seidel chamber-pressure derivative                       *)
(***************************************************************************)
\* P_critical_ratio = (2 / (k + 1)) ** (k / (k - 1))
P_critical_ratio(m, k) ==
    Pow(m, Div(m, Num(2), Add(k, Num(1))), Div(m, k, Sub(k, Num(1))))

\* H of the choked branch
HChoked(m, k) ==
    Mul(Pow(m, Div(m, k, Add(k, Num(1))), Fin(1, 2)),
        Pow(m, Div(m, Num(2), Add(k, Num(1))), Div(m, Num(1), Sub(k, Num(1)))))

\* H of the branch above the critical pressure ratio, q = Pe / P0
HFree(m, k, q) ==
    Mul(Pow(m, q, Div(m, Num(1), k)),
        Pow(m,
            Mul(Div(m, k, Sub(k, Num(1))),
                Sub(Num(1), Pow(m, q, Div(m, Sub(k, Num(1)), k)))),
            Fin(1, 2)))

\* the numerator of dP0dt
MassBalance(m, P0, Ab, At, pp, R, T0, r, H) ==
    Sub(Mul(Mul(Mul(Mul(R, T0), Ab), pp), r),
        Mul(Mul(Mul(P0, At), H), Pow(m, Mul(Mul(Num(2), R), T0), Fin(1, 2))))

CP_SeidelGuarded(m, P0, Pe, Ab, V0, At, pp, k, R, T0, r) ==
    LET crit   == P_critical_ratio(m, k)
        choked == Le(Div(m, Pe, P0), crit)
        H      == IF choked = "true" THEN HChoked(m, k)
                  ELSE HFree(m, k, Div(m, Pe, P0))
    IN  IF IsExc(crit) THEN crit
        ELSE IF choked \notin {"true", "false"} THEN Special(choked)
        ELSE IF V0 = Num(0) THEN Num(0)
        ELSE Div(m, MassBalance(m, P0, Ab, At, pp, R, T0, r, H), V0)

CP_Seidel(m, P0, Pe, Ab, V0, At, pp, k, R, T0, r) ==
    LET crit   == P_critical_ratio(m, k)
        choked == Le(Div(m, Pe, P0), crit)
        H      == IF choked = "true" THEN HChoked(m, k)
                  ELSE HFree(m, k, Div(m, Pe, P0))
    IN  IF IsExc(crit) THEN crit
        ELSE IF choked \notin {"true", "false"} THEN Special(choked)
        ELSE Div(m, MassBalance(m, P0, Ab, At, pp, R, T0, r, H), V0)

(***************************************************************************)
(* SRMInternalBallisticsSolver.solve                                       *)
(***************************************************************************)
SolveArgsRequery(in, p) ==
    [P0 |-> p, Pe |-> in.Pe,
     Ab |-> IF p = in.P THEN in.Ab ELSE Add(in.Ab, Num(1)),
     V0 |-> in.V0, At |-> in.At,
     pp |-> in.pp, k |-> in.k, R |-> in.R, T0 |-> in.T0, r |-> in.r]

\* the argument list of a solve_cp_seidel call whose pressure argument is p
SolveArgs(in, p) ==
    [P0 |-> p, Pe |-> in.Pe, Ab |-> in.Ab, V0 |-> in.V0, At |-> in.At,
     pp |-> in.pp, k |-> in.k, R |-> in.R, T0 |-> in.T0, r |-> in.r]

\* solve_cp_seidel applied to an argument list
Derivative(m, a) ==
    CP_Seidel(m, a.P0, a.Pe, a.Ab, a.V0, a.At, a.pp, a.k, a.R, a.T0, a.r)

\* chamber_pressure + 0.5 * k * d_t
TrialHalf(in, kk) == Add(in.P, Mul(Mul(Fin(1, 2), kk), in.dt))

\* the outcome of solve once the four derivatives are known: the calls made
\* until one raises, and either the 1-tuple returned or the exception raised
Outcome(m, in, k_1, k_2, k_3, k_4) ==
    LET a1  == SolveArgs(in, in.P)
        a2  == SolveArgs(in, TrialHalf(in, k_1))
        a3  == SolveArgs(in, TrialHalf(in, k_2))
        a4  == SolveArgs(in, TrialHalf(in, k_3))
        val == Add(in.P,
                   Mul(Mul(Div(m, Num(1), Num(6)),
                           Add(Add(k_1, Mul(Num(2), Add(k_2, k_3))), k_4)),
                       in.dt))
    IN  IF IsExc(k_1) THEN [exc |-> k_1.k, ret |-> <<>>, calls |-> <<a1>>]
        ELSE IF IsExc(k_2) THEN
            [exc |-> k_2.k, ret |-> <<>>, calls |-> <<a1, a2>>]
        ELSE IF IsExc(k_3) THEN
            [exc |-> k_3.k, ret |-> <<>>, calls |-> <<a1, a2, a3>>]
        ELSE IF IsExc(k_4) THEN
            [exc |-> k_4.k, ret |-> <<>>, calls |-> <<a1, a2, a3, a4>>]
        ELSE [exc |-> "none", ret |-> <<val>>, calls |-> <<a1, a2, a3, a4>>]

\* number types the caller may hand over
NumberTypes == {"float", "float64"}

\* the inputs of a solve call
SolverInputs ==
    [P  : {Num(a) : a \in 0..MaxIn},
     Pe : {Num(a) : a \in 0..MaxIn},
     Ab : {Num(a) : a \in 0..MaxIn},
     V0 : {Num(a) : a \in -1..MaxIn},
     At : {Num(0), Num(1)},
     pp : {Num(1)},
     k  : {Num(2)},
     R  : {Num(1)},
     T0 : {Num(2)},
     r  : {Num(a) : a \in 1..MaxIn},
     dt : {Num(a) : a \in 1..MaxIn}]

\* solve called on the inputs: k_1 .. k_4 are evaluated in turn, each from
\* the one before
Solve ==
    /\ solOut = NotCalled
    /\ \E k_1 \in {Derivative(solMode, SolveArgs(solIn, solIn.P))} :
       \E k_2 \in {Derivative(solMode,
                                SolveArgs(solIn, TrialHalf(solIn, k_1)))} :
       \E k_3 \in {Derivative(solMode,
                                SolveArgs(solIn, TrialHalf(solIn, k_2)))} :
       \E k_4 \in {Derivative(solMode,
                                SolveArgs(solIn, TrialHalf(solIn, k_3)))} :
          solOut' = Outcome(solMode, solIn, k_1, k_2, k_3, k_4)
    /\ UNCHANGED <<solMode, solIn, runVars, grainVars, extVars>>

InitSolver ==
    /\ solMode \in NumberTypes
    /\ solIn \in SolverInputs
    /\ solOut = NotCalled
    /\ RunIdle
    /\ GrainIdle
    /\ ExtIdle

NextSolver == Solve

SolverSpec == InitSolver /\ [][NextSolver]_vars


(***************************************************************************)
(* C4: solve is the classic 4th-order Runge-Kutta step: it returns         *)
(* P + (dt/6)*(k1 + 2*k2 + 2*k3 + k4) with k1 = f(P), k2 = f(P + dt/2*k1), *)
(* k3 = f(P + dt/2*k2) and k4 = f(P + dt*k3), f the Seidel derivative.     *)
(***************************************************************************)
C4_Classic(m, in) ==
    LET f(p) == CP_Seidel(m, p, in.Pe, in.Ab, in.V0, in.At, in.pp, in.k,
                          in.R, in.T0, in.r)
        half == Div(m, in.dt, Num(2))
        k1 == f(in.P)
        k2 == f(Add(in.P, Mul(half, k1)))
        k3 == f(Add(in.P, Mul(half, k2)))
        k4 == f(Add(in.P, Mul(in.dt, k3)))
    IN  Add(in.P,
            Mul(Div(m, in.dt, Num(6)),
                Add(Add(Add(k1, Mul(Num(2), k2)), Mul(Num(2), k3)), k4)))

C4_ClassicRK4 ==
    (solOut.exc = "none" /\ IsFin(C4_Classic(solMode, solIn)))
        => solOut.ret = <<C4_Classic(solMode, solIn)>>

(***************************************************************************)
(* C5: within one call of solve every derivative evaluation receives the   *)
(* external pressure, burn area, chamber volume, nozzle area, propellant   *)
(* density, gas properties and burn rate that solve was called with; only  *)
(* the chamber pressure differs, the first evaluation taking the chamber   *)
(* pressure of the call; a call that does not raise makes four             *)
(* evaluations.                                                            *)
(***************************************************************************)
C5_SameArguments ==
    solOut.exc # "not called" =>
        /\ Len(solOut.calls) >= 1
        /\ solOut.calls[1].P0 = solIn.P
        /\ solOut.exc = "none" => Len(solOut.calls) = 4
        /\ \A j \in 1..Len(solOut.calls) :
              LET c == solOut.calls[j]
              IN  /\ c.Pe = solIn.Pe
                  /\ c.Ab = solIn.Ab
                  /\ c.V0 = solIn.V0
                  /\ c.At = solIn.At
                  /\ c.pp = solIn.pp
                  /\ c.k = solIn.k
                  /\ c.R = solIn.R
                  /\ c.T0 = solIn.T0
                  /\ c.r = solIn.r

\* four evaluations were made at four different finite chamber pressures
C5_Witness ==
    /\ solOut.exc = "none"
    /\ Len(solOut.calls) = 4
    /\ \A j \in 1..4 : IsFin(solOut.calls[j].P0)
    /\ \A j, l \in 1..4 : j # l => solOut.calls[j].P0 # solOut.calls[l].P0
    /\ solIn.Ab # Num(0)

BaseValidate(s) ==
    /\ s.outer_diameter > 0
    /\ s.length > 0
    /\ s.spacing >= 0

BatesValidateNoCoreSign(s) ==
    /\ BaseValidate(s)
    /\ s.outer_diameter > s.core_diameter

\* BatesSegment.validate: TRUE when no assertion fails
BatesValidate(s) ==
    /\ BaseValidate(s)
    /\ s.outer_diameter > s.core_diameter
    /\ s.core_diameter > 0

\* the attributes BatesSegment.__init__ sets
BatesSegment(outer_diameter, core_diameter, length, spacing) ==
    [outer_diameter |-> outer_diameter, core_diameter |-> core_diameter,
     length |-> length, spacing |-> spacing, inhibited_ends |-> 0]

\* dimensions handed to the constructor, in millimetres
OuterDiameters == {0, 117}
CoreDiameters == {-30, 0, 45, 60, 117, 300}
Lengths == {-120, 0, 200}
Spacings == {-10, 0, 10}

add_segmentOnce(segs, seg) ==
    IF \E j \in 1..Len(segs) : segs[j] = seg THEN segs ELSE Append(segs, seg)

\* Grain.add_segment
add_segment(segs, seg) == Append(segs, seg)

\* Grain.segment_count
segment_count(segs) == Len(segs)

RECURSIVE total_lengthLessLast(_)
total_lengthLessLast(segs) ==
    IF segs = <<>> THEN 0
    ELSE IF Len(segs) = 1 THEN segs[1].length
    ELSE segs[1].length + segs[1].spacing + total_lengthLessLast(Tail(segs))

\* Grain.total_length
RECURSIVE total_length(_)
total_length(segs) ==
    IF segs = <<>> THEN 0
    ELSE segs[1].length + segs[1].spacing + total_length(Tail(segs))

get_chamber_lengthPerSegment(grain_length, grain_count, grain_spacing) ==
    SumSeq(grain_length) + grain_count * grain_spacing

\* CombustionChamber.get_chamber_length
get_chamber_length(grain_length, grain_count, grain_spacing) ==
    SumSeq(grain_length) + (grain_count - 1) * grain_spacing

\* BatesSegment(...): the constructor validates; a failed validation raises
\* GrainGeometryError and no object results
ConstructBates ==
    \E od \in OuterDiameters, cd \in CoreDiameters,
       l \in Lengths, sp \in Spacings :
        LET s == BatesSegment(od, cd, l, sp)
        IN  /\ ctorArgs' = <<s>>
            /\ IF BatesValidate(s)
               THEN /\ segObj' = <<s>>
                    /\ ctorErr' = "none"
               ELSE /\ segObj' = segObj
                    /\ ctorErr' = "GrainGeometryError"
            /\ UNCHANGED <<segments, addCalls, added>>
            /\ UNCHANGED <<runVars, solverVars, extVars>>

\* grain.add_segment(segment) with the segment object at hand
AddSegment ==
    /\ segObj # <<>>
    /\ Len(segments) < MaxSegments
    /\ segments' = add_segment(segments, segObj[1])
    /\ addCalls' = addCalls + 1
    /\ added' = Append(added, segObj[1])
    /\ UNCHANGED <<segObj, ctorArgs, ctorErr>>
    /\ UNCHANGED <<runVars, solverVars, extVars>>

\* the segments of the Olympus fixtures
Olympus45 == BatesSegment(117, 45, 200, 10)
Olympus60 == BatesSegment(117, 60, 200, 10)
OlympusOrder ==
    <<Olympus45, Olympus45, Olympus45, Olympus45,
      Olympus60, Olympus60, Olympus60>>

RECURSIVE AddAll(_, _)
AddAll(segs, new) ==
    IF new = <<>> THEN segs
    ELSE AddAll(add_segment(segs, new[1]), Tail(new))

\* the bates_grain_olympus fixture: seven add_segment calls on a new Grain
BuildOlympus ==
    /\ segments = <<>>
    /\ BatesValidate(Olympus45) /\ BatesValidate(Olympus60)
    /\ segments' = AddAll(<<>>, OlympusOrder)
    /\ addCalls' = addCalls + Len(OlympusOrder)
    /\ added' = added \o OlympusOrder
    /\ segObj' = <<Olympus60>>
    /\ ctorArgs' = <<Olympus60>>
    /\ ctorErr' = "none"
    /\ UNCHANGED <<runVars, solverVars, extVars>>

InitGrain ==
    /\ GrainIdle
    /\ RunIdle
    /\ SolverIdle
    /\ ExtIdle

NextGrain ==
    \/ ConstructBates
    \/ AddSegment
    \/ BuildOlympus

GrainSpec == InitGrain /\ [][NextGrain]_vars


\* the lengths of the segments, and the sum of length + spacing over them
SegmentLengths(segs) == [j \in 1..Len(segs) |-> segs[j].length]
SumLengthSpacing(segs) ==
    SumSeq([j \in 1..Len(segs) |-> segs[j].length + segs[j].spacing])
CommonSpacing(segs) ==
    \A j \in 1..Len(segs) : segs[j].spacing = segs[1].spacing

(***************************************************************************)
(* C7 as stated: the grain total length is the sum of length + spacing     *)
(* over the segments minus the spacing of the last segment, and for a      *)
(* common spacing it is the value get_chamber_length computes.             *)
(***************************************************************************)
C7_TotalLengthLessLastSpacing ==
    segments # <<>> =>
        /\ total_length(segments)
              = SumLengthSpacing(segments) - Last(segments).spacing
        /\ CommonSpacing(segments) =>
              total_length(segments)
                  = get_chamber_length(SegmentLengths(segments),
                                       segment_count(segments),
                                       segments[1].spacing)

(***************************************************************************)
(* C7 amended: for a grain of N >= 1 segments with a common spacing s,     *)
(* get_chamber_length computes sum(length) + (N - 1)*s, which is the grain *)
(* total length (every spacing included) minus s.                          *)
(***************************************************************************)
C7_ChamberLength ==
    (segments # <<>> /\ CommonSpacing(segments)) =>
        LET s == segments[1].spacing
            c == get_chamber_length(SegmentLengths(segments),
                                    segment_count(segments), s)
        IN  /\ c = total_length(segments) - s
            /\ c = SumLengthSpacing(segments) - Last(segments).spacing

\* a grain of several segments with a common spacing that is not 0
C7_Witness ==
    /\ Len(segments) >= 2
    /\ CommonSpacing(segments)
    /\ segments[1].spacing > 0
    /\ total_length(segments)
          # get_chamber_length(SegmentLengths(segments),
                               segment_count(segments), segments[1].spacing)

(***************************************************************************)
(* C8: Grain.total_length is the sum over all segments of length +         *)
(* spacing, every spacing included; for the Olympus grain it is 1470 mm.   *)
(***************************************************************************)
C8_TotalLength ==
    /\ total_length(segments) = SumLengthSpacing(segments)
    /\ segments = OlympusOrder => total_length(segments) = 1470

\* the Olympus grain has been built
C8_Witness ==
    /\ segments = OlympusOrder
    /\ addCalls = 7
    /\ total_length(segments) = 1470

(***************************************************************************)
(* C9: segment_count equals len(segments) and the number of add_segment    *)
(* calls made, a segment object added several times counting once per      *)
(* call, and segments holds the added segments in insertion order.         *)
(***************************************************************************)
C9_SegmentCount ==
    /\ segment_count(segments) = Len(segments)
    /\ segment_count(segments) = addCalls
    /\ segments = added

\* the same segment object has been added twice, then another one
C9_Witness ==
    /\ addCalls = 3
    /\ segments[1] = segments[2]
    /\ segments[3] # segments[2]

(***************************************************************************)
(* C10: constructing a BatesSegment raises GrainGeometryError whenever     *)
(* core_diameter >= outer_diameter, core_diameter <= 0, length <= 0 or     *)
(* spacing < 0, and succeeds when 0 < core_diameter < outer_diameter,      *)
(* length > 0 and spacing >= 0; a failed construction yields no segment    *)
(* object, so no segment at hand or in a grain breaks these conditions.    *)
(***************************************************************************)
C10_Rejected(s) ==
    \/ s.core_diameter >= s.outer_diameter
    \/ s.core_diameter <= 0
    \/ s.length <= 0
    \/ s.spacing < 0

C10_Accepted(s) ==
    /\ 0 < s.core_diameter
    /\ s.core_diameter < s.outer_diameter
    /\ s.length > 0
    /\ s.spacing >= 0

C10_Validation ==
    /\ ctorArgs # <<>> =>
          /\ C10_Rejected(ctorArgs[1]) => ctorErr = "GrainGeometryError"
          /\ C10_Accepted(ctorArgs[1]) =>
                (ctorErr = "none" /\ segObj = ctorArgs)
          /\ ctorErr = "GrainGeometryError" => segObj # ctorArgs
    /\ segObj # <<>> => C10_Accepted(segObj[1])
    /\ \A j \in 1..Len(segments) : C10_Accepted(segments[j])

\* a construction with a negative core diameter has failed while an earlier
\* segment is still at hand
C10_Witness ==
    /\ ctorArgs # <<>>
    /\ ctorArgs[1].core_diameter < 0
    /\ ctorArgs[1].length > 0
    /\ ctorArgs[1].spacing >= 0
    /\ ctorErr = "GrainGeometryError"
    /\ segObj # <<>>

(***************************************************************************)
(* Grain segments under query: the analytic tube segment (BatesSegment and *)
(* the legacy BATES class) and the raster segment (FMMGrainSegment2D, with *)
(* the D-shaped face of DGrainSegment).                                    *)
(*                                                                         *)
(* Lengths are integer millimetres.  An area is a record [pi4, q12]: the   *)
(* value pi4 * (pi/4) + q12 / 12 square millimetres, so that the analytic  *)
(* areas (multiples of pi/4) and the raster areas (rational) are exact.    *)
(***************************************************************************)
Area(pi4, q12) == [pi4 |-> pi4, q12 |-> q12]
AreaSub(a, b) == Area(a.pi4 - b.pi4, a.q12 - b.q12)
AreaAdd(a, b) == Area(a.pi4 + b.pi4, a.q12 + b.q12)

\* get_circle_area(diameter) = pi * 0.25 * diameter ** 2
get_circle_area(diameter) == Area(diameter * diameter, 0)

\* the cells <<row, column>> of a map_dim x map_dim array
Cells(m) == (1..m) \X (1..m)

\* np.linspace(-1, 1, map_dim)[j - 1], multiplied by map_dim - 1
Linspace(j, m) == 2 * (j - 1) - (m - 1)

\* np.meshgrid(linspace, linspace): map_x varies along the columns, map_y
\* along the rows
Meshgrid(m) ==
    [x |-> [c \in Cells(m) |-> Linspace(c[2], m)],
     y |-> [c \in Cells(m) |-> Linspace(c[1], m)]]

\* (map_x**2 + map_y**2) > 1: the cells outside the outer circle
MaskOf(mp, m) ==
    {c \in Cells(m) : mp.x[c] * mp.x[c] + mp.y[c] * mp.y[c] > (m - 1) * (m - 1)}

\* normalize(value): a length as a fraction n/d of the outer radius
normalize(a, value) == [n |-> 2 * value, d |-> a.outer_diameter]

\* DGrainSegment.get_face_map: 1 solid propellant, 0 burnt (the slot), -1
\* masked; the assignment core_map[map_x > slot_offset_normalized] = 0 also
\* writes the cells that were masked
DGrainFaceMap(a, mp, msk) ==
    LET so == normalize(a, a.slot_offset)
        m  == a.map_dim
    IN  [c \in Cells(m) |->
            IF mp.x[c] * so.d > so.n * (m - 1) THEN 0
            ELSE IF c \in msk THEN -1
            ELSE 1]

\* squared distance of two cells, in grid cells
Dist2(c, b) == (c[1] - b[1]) * (c[1] - b[1]) + (c[2] - b[2]) * (c[2] - b[2])

SetMin(S) == CHOOSE v \in S : \A w \in S : v <= w
SetMax(S) == CHOOSE v \in S : \A w \in S : v >= w

\* the regression map of a face: for a solid cell the distance to the nearest
\* burnt or outer-boundary cell, 0 for the other cells.  The map holds the
\* SQUARE of the distance in grid cells; the normalised distance of the code
\* is 2 * sqrt(value) / map_dim
RegressionOf(face, m) ==
    LET open == {b \in Cells(m) : face[b] # 1}
    IN  [c \in Cells(m) |->
            IF face[c] # 1 THEN 0
            ELSE IF open = {} THEN 4 * m * m
            ELSE SetMin({Dist2(c, b) : b \in open})]

\* np.amax(regression_map), as the squared distance in grid cells
AMax(reg, m) == SetMax({reg[c] : c \in Cells(m)})

\* regression_map > level, for a level n/d of the outer radius
Beyond(reg, c, n, d, m) ==
    n < 0 \/ 4 * reg[c] * d * d > n * n * m * m

\* map_to_area(value) = outer_diameter**2 * value / map_dim**2, in 1/12 mm^2
map_to_area(a, value) ==
    (12 * a.outer_diameter * a.outer_diameter * value)
        \div (a.map_dim * a.map_dim)

\* map_to_length(value) = outer_diameter * value / map_dim
map_to_length(a, value) == Mul(Num(a.outer_diameter), Div("float", value, Num(a.map_dim)))

\* the lookup table of get_face_area_interp_func before smoothing: entry i
\* (from 0) is at the normalised web distance i / map_dim and holds the area
\* of the cells inside the circle whose regression value is beyond it
FaceAreaTable(a, reg, msk) ==
    LET m == a.map_dim
        n == ISqrt(4 * AMax(reg, m)) + 2
    IN  [j \in 1..n |->
            map_to_area(a, Cardinality({c \in Cells(m) \ msk :
                                           Beyond(reg, c, j - 1, m, m)}))]

\* savgol_filter(face_area, window, order) with mode 'interp'.  The tables of
\* the model have a handful of entries where the code's have about a thousand,
\* and the filter is scaled with them: window 3, order 1 (a moving average
\* inside, the fitted line at both ends).  A table shorter than the window is
\* refused with ValueError, as scipy does
savgol_filter(ys) ==
    LET n == Len(ys)
    IN  IF n < 3 THEN [exc |-> "ValueError", ret |-> <<>>]
        ELSE [exc |-> "none",
              ret |-> [j \in 1..n |->
                  IF j = 1 THEN (5 * ys[1] + 2 * ys[2] - ys[3]) \div 6
                  ELSE IF j = n
                      THEN (5 * ys[n] + 2 * ys[n - 1] - ys[n - 2]) \div 6
                  ELSE (ys[j - 1] + ys[j] + ys[j + 1]) \div 3]]

\* calling the interp1d object f at the normalised distance q: linear between
\* the table points, ValueError outside the table (bounds_error is left at
\* its default)
InterpCall(f, q, m) ==
    LET num == q.n * m
        lo  == num \div q.d
        rem == num % q.d
    IN  IF num < 0 \/ num > (Len(f) - 1) * q.d
        THEN [exc |-> "ValueError", ret |-> <<>>]
        ELSE IF rem = 0 THEN [exc |-> "none", ret |-> <<Area(0, f[lo + 1])>>]
        ELSE [exc |-> "none",
              ret |-> <<Area(0, f[lo + 1]
                                + ((f[lo + 2] - f[lo + 1]) * rem) \div q.d)>>]

(***************************************************************************)
(* The methods of a raster segment.  a is the record of its attributes, o  *)
(* the record of its caches (maps, mask, regression_map,                   *)
(* face_area_interp_func, each <<>> or <<value>>, and writes, the number   *)
(* of assignments to each).  A method yields [o, exc, ret]: the caches     *)
(* after the call, the exception raised or "none", and the value returned. *)
(***************************************************************************)
Write(o, cache, v) ==
    [o EXCEPT ![cache] = <<v>>, !.writes[cache] = @ + 1]

Returns(o, v) == [o |-> o, exc |-> "none", ret |-> <<v>>]
Raises(o, e) == [o |-> o, exc |-> e, ret |-> <<>>]

\* the statement  val = e  followed by the statements F(val): e is evaluated
\* once, before F
Bind(e, F(_)) == CHOOSE out \in {F(val) : val \in {e}} : TRUE

get_mapsAlways(a, o) ==
    Bind(Meshgrid(a.map_dim), LAMBDA v :
        Returns(Write(o, "maps", v), v))

\* FMMGrainSegment2D.get_maps
get_maps(a, o) ==
    IF o.maps = <<>>
    THEN Bind(Meshgrid(a.map_dim), LAMBDA v :
             Returns(Write(o, "maps", v), v))
    ELSE Returns(o, o.maps[1])

\* FMMGrainSegment2D.get_mask
get_mask(a, o) ==
    IF o.mask = <<>>
    THEN Bind(get_maps(a, o), LAMBDA r :
         Bind(MaskOf(r.ret[1], a.map_dim), LAMBDA v :
             Returns(Write(r.o, "mask", v), v)))
    ELSE Returns(o, o.mask[1])

\* get_face_map() of the D-shaped segment, on get_maps and the masked array
\* of ones of get_empty_face_map
get_face_map(a, o) ==
    Bind(get_maps(a, o), LAMBDA r1 :
    Bind(get_mask(a, r1.o), LAMBDA r2 :
        Returns(r2.o, DGrainFaceMap(a, r1.ret[1], r2.ret[1]))))

\* get_regression_map: computed from the face map on the first call, kept in
\* self.regression_map
get_regression_map(a, o) ==
    IF o.regression_map = <<>>
    THEN Bind(get_face_map(a, o), LAMBDA r :
         Bind(RegressionOf(r.ret[1], a.map_dim), LAMBDA v :
             Returns(Write(r.o, "regression_map", v), v)))
    ELSE Returns(o, o.regression_map[1])

get_face_area_interp_funcRebuilt(a, o) ==
    Bind(get_regression_map(a, o), LAMBDA r1 :
    Bind(get_mask(a, r1.o), LAMBDA r2 :
    Bind(FaceAreaTable(a, r1.ret[1], r2.ret[1]), LAMBDA face_area :
    Bind(savgol_filter(face_area), LAMBDA sm :
        IF sm.exc # "none" THEN Raises(r2.o, sm.exc)
        ELSE Returns(Write(r2.o, "face_area_interp_func", sm.ret),
                     sm.ret)))))

\* FMMGrainSegment2D.get_face_area_interp_func: the interp1d object is the
\* smoothed table (its abscissae are i / map_dim)
get_face_area_interp_func(a, o) ==
    IF o.face_area_interp_func = <<>>
    THEN Bind(get_regression_map(a, o), LAMBDA r1 :
         Bind(get_mask(a, r1.o), LAMBDA r2 :
         Bind(FaceAreaTable(a, r1.ret[1], r2.ret[1]), LAMBDA face_area :
         Bind(savgol_filter(face_area), LAMBDA sm :
             IF sm.exc # "none" THEN Raises(r2.o, sm.exc)
             ELSE Returns(Write(r2.o, "face_area_interp_func", sm.ret),
                          sm.ret)))))
    ELSE Returns(o, o.face_area_interp_func[1])

\* FMMGrainSegment2D.get_face_area
get_face_area(a, o, web_distance) ==
    Bind(normalize(a, web_distance), LAMBDA map_distance :
    Bind(get_face_area_interp_func(a, o), LAMBDA f :
        IF f.exc # "none" THEN Raises(f.o, f.exc)
        ELSE Bind(InterpCall(f.ret[1], map_distance, a.map_dim), LAMBDA v :
                 [o |-> f.o, exc |-> v.exc, ret |-> v.ret])))

get_port_areaOfCore(a, o, web_distance) ==
    Bind(get_face_area(a, o, web_distance), LAMBDA r :
        IF r.exc # "none" THEN r
        ELSE Returns(r.o, AreaSub(get_circle_area(a.outer_diameter - 1),
                                  r.ret[1])))

\* FMMGrainSegment2D.get_port_area
get_port_area(a, o, web_distance) ==
    Bind(get_face_area(a, o, web_distance), LAMBDA r :
        IF r.exc # "none" THEN r
        ELSE Returns(r.o, AreaSub(get_circle_area(a.outer_diameter),
                                  r.ret[1])))

\* the cells next to c in its row and column
Neighbours(c, m) ==
    {b \in Cells(m) : Dist2(c, b) = 1}

\* FMMGrainSegment2D.get_contours: find_contours on the regression map at the
\* normalised level; the model returns the cells beyond the level that touch
\* a cell not beyond it
get_contours(a, o, web_distance) ==
    Bind(normalize(a, web_distance), LAMBDA map_dist :
    Bind(get_regression_map(a, o), LAMBDA r :
    Bind({c \in Cells(a.map_dim) :
            Beyond(r.ret[1], c, map_dist.n, map_dist.d, a.map_dim)},
         LAMBDA inside :
        Returns(r.o, {c \in inside :
                        \E b \in Neighbours(c, a.map_dim) : b \notin inside}))))

\* get_length(contour, map_size, tolerance = 3.0): the length of the contour
\* points nearer to the centre than map_size / 2 - tolerance (one grid cell
\* per point in the model)
get_length(contour, map_size) ==
    Cardinality({c \in contour :
        /\ map_size > 6
        /\ (2 * (c[1] - 1) - map_size) * (2 * (c[1] - 1) - map_size)
            + (2 * (c[2] - 1) - map_size) * (2 * (c[2] - 1) - map_size)
            < (map_size - 6) * (map_size - 6)})

\* FMMGrainSegment2D.get_core_perimeter
get_core_perimeter(a, o, web_distance) ==
    Bind(get_contours(a, o, web_distance), LAMBDA r :
        Returns(r.o, map_to_length(a, Num(get_length(r.ret[1], a.map_dim)))))

\* GrainSegment.get_length(web_distance): both ends regress unless inhibited
SegmentLength(a, web_distance) ==
    a.length - web_distance * (2 - a.inhibited_ends)

\* FMMGrainSegment2D.get_core_area
get_core_area(a, o, web_distance) ==
    Bind(get_core_perimeter(a, o, web_distance), LAMBDA r :
        Returns(r.o, Mul(r.ret[1], Num(SegmentLength(a, web_distance)))))

\* web_distance > get_web_thickness() for the raster segment, whose web
\* thickness is the largest regression value brought back to millimetres,
\* sqrt(AMax) * outer_diameter / map_dim
BeyondWeb(a, reg, web_distance) ==
    /\ web_distance > 0
    /\ web_distance * web_distance * a.map_dim * a.map_dim
        > AMax(reg, a.map_dim) * a.outer_diameter * a.outer_diameter

\* FMMGrainSegment.get_web_thickness: returned as its square
FMMWebThickness(a, o) ==
    Bind(get_regression_map(a, o), LAMBDA r :
        Returns(r.o, [squared |->
            Fin(AMax(r.ret[1], a.map_dim) * a.outer_diameter
                    * a.outer_diameter, a.map_dim * a.map_dim)]))

\* get_face_map(web_distance): the cells that are still solid at the web
\* distance, i.e. solid at the start and not yet reached by the regression
SolidCells(a, reg, msk, web_distance) ==
    LET q == normalize(a, web_distance)
    IN  {c \in Cells(a.map_dim) \ msk :
            reg[c] > 0 /\ Beyond(reg, c, q.n, q.d, a.map_dim)}

\* the sum of the k-th indices (from 0) of the cells of S, taken over the
\* index values up to r
RECURSIVE SumOver(_, _, _)
SumOver(S, k, r) ==
    IF r = 0 THEN 0
    ELSE (r - 1) * Cardinality({c \in S : c[k] = r}) + SumOver(S, k, r - 1)

z_cogFull(a) == Fin(a.length, 1)

\* z_cog = self.length / 2
z_cog(a) == Fin(a.length, 2)

\* FMMGrainSegment2D.get_center_of_gravity; mean(k) is
\* np.mean(indices - map_dim / 2)
get_center_of_gravity(a, o, web_distance) ==
    Bind(get_regression_map(a, o), LAMBDA r1 :
        IF BeyondWeb(a, r1.ret[1], web_distance)
        THEN Raises(r1.o, "GrainGeometryError")
        ELSE
    Bind(get_mask(a, r1.o), LAMBDA r2 :
    Bind(SolidCells(a, r1.ret[1], r2.ret[1], web_distance), LAMBDA solid :
    Bind(Cardinality(solid), LAMBDA n :
        LET mean(k) == Fin(2 * SumOver(solid, k, a.map_dim) - n * a.map_dim,
                           2 * n)
        IN  IF n = 0 THEN Raises(r2.o, "GrainGeometryError")
            ELSE Returns(r2.o, <<map_to_length(a, mean(2)),
                                 map_to_length(a, mean(1)),
                                 z_cog(a)>>)))))

(***************************************************************************)
(* The methods of the analytic tube segment.                               *)
(***************************************************************************)
\* BatesSegment.get_face_area
BatesFaceArea(a, web_distance) ==
    LET core_diameter == a.core_diameter + 2 * web_distance
    IN  Area(a.outer_diameter * a.outer_diameter
                - core_diameter * core_diameter, 0)

\* get_cylinder_surface_area(length, diameter) = pi * length * diameter
get_cylinder_surface_area(length, diameter) == Area(4 * length * diameter, 0)

\* BatesSegment.get_core_area
BatesCoreArea(a, web_distance) ==
    get_cylinder_surface_area(SegmentLength(a, web_distance),
                              a.core_diameter + 2 * web_distance)

\* BatesSegment.get_web_thickness, as a fraction
BatesWebThickness(a) == Fin(a.outer_diameter - a.core_diameter, 2)

\* BatesSegment.get_optimal_length
BatesOptimalLength(a) ==
    Fin(1000 * (3 * a.outer_diameter + a.core_diameter), 2)

\* GrainSegment2D.get_port_area: what the face leaves of the outer circle
BatesPortArea(a, web_distance) ==
    AreaSub(get_circle_area(a.outer_diameter), BatesFaceArea(a, web_distance))

\* BATES.burnArea(x, j)
burnArea(x, seg) ==
    Area(2 * (seg.D * seg.D - (seg.d + 2 * x) * (seg.d + 2 * x))
            + 4 * (seg.L - 2 * x) * (seg.d + 2 * x), 0)

\* BATES.web(): the last entry of w[j], the web thickness of grain j
web_end(seg) ==
    IF seg.D - seg.d > 2 * seg.L THEN Fin(seg.L, 2)
    ELSE Fin(seg.D - seg.d, 2)

(***************************************************************************)
(* The segments queried and the query actions.                             *)
(***************************************************************************)
\* DGrainSegment(...) as a raster segment: the attributes its constructors set
DGrainSegment(outer_diameter, length, slot_offset, spacing, map_dim) ==
    [kind |-> "FMMGrainSegment2D", outer_diameter |-> outer_diameter,
     length |-> length, slot_offset |-> slot_offset, spacing |-> spacing,
     inhibited_ends |-> 0, map_dim |-> map_dim]

\* the segments of the model: valid tube segments (BatesSegment and the legacy
\* BATES with one grain) and D-shaped raster segments on a 5 x 5 map
QuerySegments ==
    { [kind |-> "BatesSegment"] @@ BatesSegment(12, 4, 6, 2),
      [kind |-> "BatesSegment"] @@ BatesSegment(12, 8, 20, 2),
      [kind |-> "BATES", seg |-> Seg(12, 4, 6)],
      [kind |-> "BATES", seg |-> Seg(12, 4, 3)],
      [kind |-> "BATES", seg |-> Seg(12, 8, 20)],
      DGrainSegment(10, 6, 3, 2, 5),
      DGrainSegment(20, 6, 4, 2, 5),
      DGrainSegment(20, 6, 12, 2, 5) }

QueryXs == 0..MaxX

\* the caches of the segment as one record
Obj ==
    [maps |-> maps, mask |-> mask, regression_map |-> regression_map,
     face_area_interp_func |-> face_area_interp_func, writes |-> cacheWrites]

\* qFace after a query other than get_face_area: the answer it keeps has now
\* been followed by another query
Touched(S) == {[e EXCEPT !.between = TRUE] : e \in S}

\* the outcome r of the query op at web distance x takes effect
Effect(op, x, r) ==
    /\ maps' = r.o.maps
    /\ mask' = r.o.mask
    /\ regression_map' = r.o.regression_map
    /\ face_area_interp_func' = r.o.face_area_interp_func
    /\ cacheWrites' = r.o.writes
    /\ qLast' = [op |-> op, x |-> x, exc |-> r.exc, ret |-> r.ret]
    /\ UNCHANGED <<qSeg, callVars, mcVars, runVars, solverVars, grainVars>>

\* the same for a query other than the raster segment's get_face_area
Answer(op, x, r) ==
    /\ Effect(op, x, r)
    /\ qFace' = Touched(qFace)

IsKind(kind) == qSeg # <<>> /\ qSeg[1].kind = kind

GetMaps ==
    /\ IsKind("FMMGrainSegment2D")
    /\ \E r \in {get_maps(qSeg[1], Obj)} :
              Answer("get_maps", 0, r)

GetMask ==
    /\ IsKind("FMMGrainSegment2D")
    /\ \E r \in {get_mask(qSeg[1], Obj)} :
              Answer("get_mask", 0, r)

GetContours ==
    /\ IsKind("FMMGrainSegment2D")
    /\ \E x \in QueryXs :
          \E r \in {get_contours(qSeg[1], Obj, x)} :
              Answer("get_contours", x, r)

GetPortArea ==
    /\ IsKind("FMMGrainSegment2D")
    /\ \E x \in QueryXs :
          \E r \in {get_port_area(qSeg[1], Obj, x)} :
              Answer("get_port_area", x, r)

GetFaceAreaInterpFunc ==
    /\ IsKind("FMMGrainSegment2D")
    /\ \E r \in {get_face_area_interp_func(qSeg[1], Obj)} :
              Answer("get_face_area_interp_func", 0, r)

\* get_face_area; qFace keeps one earlier answer of get_face_area, to compare
\* later ones with: this call's answer either replaces the one kept or not
GetFaceArea ==
    /\ IsKind("FMMGrainSegment2D")
    /\ \E x \in QueryXs :
        \E r \in {get_face_area(qSeg[1], Obj, x)} :
          /\ Effect("get_face_area", x, r)
          /\ qFace' \in {qFace, {[x |-> x, exc |-> r.exc, ret |-> r.ret,
                                  between |-> FALSE]}}

GetCorePerimeter ==
    /\ IsKind("FMMGrainSegment2D")
    /\ \E x \in QueryXs :
          \E r \in {get_core_perimeter(qSeg[1], Obj, x)} :
              Answer("get_core_perimeter", x, r)

GetCoreArea ==
    /\ IsKind("FMMGrainSegment2D")
    /\ \E x \in QueryXs :
          \E r \in {get_core_area(qSeg[1], Obj, x)} :
              Answer("get_core_area", x, r)

GetWebThickness ==
    /\ IsKind("FMMGrainSegment2D")
    /\ \E r \in {FMMWebThickness(qSeg[1], Obj)} :
              Answer("get_web_thickness", 0, r)

GetCenterOfGravity ==
    /\ IsKind("FMMGrainSegment2D")
    /\ \E x \in QueryXs :
          \E r \in {get_center_of_gravity(qSeg[1], Obj, x)} :
              Answer("get_center_of_gravity", x, r)

\* the queries of BatesSegment, which has no caches
BatesQuery ==
    /\ IsKind("BatesSegment")
    /\ \E x \in QueryXs :
        \/ \E r \in {Returns(Obj, BatesFaceArea(qSeg[1], x))} :
              Answer("get_face_area", x, r)
        \/ \E r \in {Returns(Obj, BatesCoreArea(qSeg[1], x))} :
              Answer("get_core_area", x, r)
        \/ \E r \in {Returns(Obj, BatesPortArea(qSeg[1], x))} :
              Answer("get_port_area", x, r)
        \/ \E r \in {Returns(Obj, BatesWebThickness(qSeg[1]))} :
              Answer("get_web_thickness", 0, r)
        \/ \E r \in {Returns(Obj, BatesOptimalLength(qSeg[1]))} :
              Answer("get_optimal_length", 0, r)

\* the methods of the legacy BATES object
LegacyQuery ==
    /\ IsKind("BATES")
    /\ \E x \in QueryXs :
        \/ \E r \in {Returns(Obj, burnArea(x, qSeg[1].seg))} :
              Answer("burnArea", x, r)
        \/ Answer("grainVolume", x,
                  Returns(Obj, Area(grainVolume(x, qSeg[1].seg), 0)))
        \/ \E r \in {Returns(Obj, web_end(qSeg[1].seg))} :
              Answer("web", 0, r)

InitQuery ==
    /\ qSeg \in {<<a>> : a \in QuerySegments}
    /\ maps = <<>>
    /\ mask = <<>>
    /\ regression_map = <<>>
    /\ face_area_interp_func = <<>>
    /\ cacheWrites = [maps |-> 0, mask |-> 0, regression_map |-> 0,
                      face_area_interp_func |-> 0]
    /\ qLast = NoQuery
    /\ qFace = {}
    /\ CallIdle
    /\ RunIdle
    /\ SolverIdle
    /\ GrainIdle
    /\ McIdle

NextQuery ==
    \/ GetMaps
    \/ GetMask
    \/ GetContours
    \/ GetPortArea
    \/ GetFaceAreaInterpFunc
    \/ GetFaceArea
    \/ GetCorePerimeter
    \/ GetCoreArea
    \/ GetWebThickness
    \/ GetCenterOfGravity
    \/ BatesQuery
    \/ LegacyQuery

QuerySpec == InitQuery /\ [][NextQuery]_vars

\* the segment under query, and the regression map of a raster segment
\* computed afresh from its attributes
QA == qSeg[1]
QReg ==
    LET m  == QA.map_dim
        mp == Meshgrid(m)
    IN  RegressionOf(DGrainFaceMap(QA, mp, MaskOf(mp, m)), m)

\* the web distance x is greater than the web thickness of the segment
QBeyondWeb(x) ==
    CASE QA.kind = "BatesSegment" ->
            2 * x > QA.outer_diameter - QA.core_diameter
      [] QA.kind = "BATES" ->
            x * web_end(QA.seg).d > web_end(QA.seg).n
      [] QA.kind = "FMMGrainSegment2D" -> BeyondWeb(QA, QReg, x)

\* the value a spent segment answers with: no face, burn area or volume left,
\* the whole outer circle open
SpentValue(op) ==
    IF op = "get_port_area" THEN get_circle_area(QA.outer_diameter)
    ELSE Area(0, 0)

(***************************************************************************)
(* C11: a segment queried at a web distance greater than its web thickness *)
(* answers with the spent-segment value (zero face area, burn area and     *)
(* volume, the port fully open) and does not raise: get_face_area and      *)
(* get_port_area of the raster segment, also beyond the last entry of the  *)
(* lookup table, and the face area, burn area and volume of the tube       *)
(* segment.                                                                *)
(***************************************************************************)
C11_SpentValue ==
    (/\ qSeg # <<>>
     /\ qLast.op \in {"get_face_area", "get_port_area", "burnArea",
                      "grainVolume"}
     /\ QBeyondWeb(qLast.x))
        => /\ qLast.exc = "none"
           /\ qLast.ret = <<SpentValue(qLast.op)>>

\* the smaller of two fractions
MinFrac(a, b) == IF Le(a, b) = "true" THEN a ELSE b

(***************************************************************************)
(* C12: the web thickness of a tube-burning segment is                     *)
(* min((D - d) / 2, L / 2), for BatesSegment.get_web_thickness and for the *)
(* web thickness BATES.web ends at.                                        *)
(***************************************************************************)
C12_WebIsMin ==
    /\ (qSeg # <<>> /\ QA.kind = "BatesSegment"
            /\ qLast.op = "get_web_thickness")
        => qLast.ret = <<MinFrac(Fin(QA.outer_diameter - QA.core_diameter, 2),
                                 Fin(QA.length, 2))>>
    /\ (qSeg # <<>> /\ QA.kind = "BATES" /\ qLast.op = "web")
        => qLast.ret = <<MinFrac(Fin(QA.seg.D - QA.seg.d, 2),
                                 Fin(QA.seg.L, 2))>>

\* the face area of the segment at x, asked of the segment as it is now
QFaceArea(x) ==
    IF QA.kind = "BatesSegment" THEN BatesFaceArea(QA, x)
    ELSE get_face_area(QA, Obj, x).ret[1]

QNoSolid(x) ==
    LET m == QA.map_dim
    IN  SolidCells(QA, QReg, MaskOf(Meshgrid(m), m), x) = {}

(***************************************************************************)
(* C14: get_center_of_gravity(x) of the raster segment raises              *)
(* GrainGeometryError, and returns nothing, when x is greater than the web *)
(* thickness and when no cell of the face map is solid at x; in every      *)
(* other case it returns a triple whose third coordinate is length / 2.    *)
(***************************************************************************)
C14_CenterOfGravity ==
    (qSeg # <<>> /\ qLast.op = "get_center_of_gravity")
        => IF QBeyondWeb(qLast.x) \/ QNoSolid(qLast.x)
           THEN qLast.exc = "GrainGeometryError" /\ qLast.ret = <<>>
           ELSE /\ qLast.exc = "none"
                /\ Len(qLast.ret[1]) = 3
                /\ qLast.ret[1][3] = Fin(QA.length, 2)

\* both outcomes have been seen: the state after an answered query with
\* solid cells left, on a segment whose caches an earlier call filled
C14_Witness ==
    /\ qSeg # <<>>
    /\ qLast.op = "get_center_of_gravity"
    /\ qLast.x > 0
    /\ qLast.exc = "none"
    /\ qLast.ret[1][3] = Fin(QA.length, 2)
    /\ qLast.ret[1][1] # Num(0)

(***************************************************************************)
(* C16: the queries of a segment leave its defining attributes (outer      *)
(* diameter, core diameter, length, spacing, inhibited ends, map_dim)      *)
(* unchanged; they write only the caches (maps, mask, regression map,      *)
(* face_area_interp_func), and each cache is written at most once, while   *)
(* it is still None.                                                       *)
(***************************************************************************)
C16_QueriesWriteOnlyCaches ==
    /\ [][/\ qSeg' = qSeg
          /\ maps # <<>> => maps' = maps
          /\ mask # <<>> => mask' = mask
          /\ regression_map # <<>> => regression_map' = regression_map
          /\ face_area_interp_func # <<>>
                => face_area_interp_func' = face_area_interp_func]_vars
    /\ [](\A c \in DOMAIN cacheWrites : cacheWrites[c] <= 1)

\* every cache is filled and a query was answered from the filled caches
C16_Witness ==
    /\ qSeg # <<>>
    /\ maps # <<>>
    /\ mask # <<>>
    /\ regression_map # <<>>
    /\ face_area_interp_func # <<>>
    /\ \A c \in DOMAIN cacheWrites : cacheWrites[c] = 1
    /\ qLast.op = "get_core_area"
    /\ \E e \in qFace : e.between

(***************************************************************************)
(* C17: the face-area interpolation function of a raster segment is built  *)
(* by the first call of get_face_area_interp_func, and every later call    *)
(* returns that same function; two get_face_area queries at the same web   *)
(* distance give the same answer, whatever was queried in between.         *)
(***************************************************************************)
C17_InterpFuncCached ==
    /\ [][(face_area_interp_func # <<>>
            /\ qLast'.op = "get_face_area_interp_func")
          => /\ qLast'.ret = face_area_interp_func
             /\ face_area_interp_func' = face_area_interp_func
             /\ cacheWrites' = cacheWrites]_vars
    /\ [](cacheWrites.face_area_interp_func <= 1)
    /\ [](qLast.op = "get_face_area" /\ qSeg # <<>>
            /\ QA.kind = "FMMGrainSegment2D"
          => \A e \in qFace :
                e.x = qLast.x => e.exc = qLast.exc /\ e.ret = qLast.ret)

\* get_face_area has answered a second time at a web distance, after another
\* query came in between
C17_Witness ==
    /\ qSeg # <<>>
    /\ QA.kind = "FMMGrainSegment2D"
    /\ qLast.op = "get_face_area"
    /\ qLast.exc = "none"
    /\ qLast.x > 0
    /\ cacheWrites.face_area_interp_func = 1
    /\ \E e \in qFace : e.between /\ e.x = qLast.x /\ e.ret = qLast.ret

\* the largest web thickness among the segments of a grain
MaxWebThickness(g) == SetMax({get_web_thickness(g[j]) : j \in 1..Len(g)})

(***************************************************************************)
(* C15: in every state a run records, the web distance is at most the      *)
(* largest web thickness among the segments of the grain, while each step  *)
(* advances it by burn_rate * d_t until the propellant mass reaches zero.  *)
(***************************************************************************)
C15_WebWithinMax ==
    grain # <<>> => web <= MaxWebThickness(grain)

(***************************************************************************)
(* getBurnProfile                                                          *)
(***************************************************************************)
\* a < b: "true", "false", or the exception of the comparison
Lt(a, b) ==
    IF IsExc(a) THEN a.k
    ELSE IF IsExc(b) THEN b.k
    ELSE IF a.k = "cplx" \/ b.k = "cplx" THEN "TypeError"
    ELSE IF a.k = "nan" \/ b.k = "nan" THEN "false"
    ELSE IF Le(b, a) = "true" THEN "false"
    ELSE "true"

\* the outcome of a function call
Returned(v) == [exc |-> "none", ret |-> <<v>>]
Raised(e) == [exc |-> e, ret |-> <<>>]

getBurnProfileInclusive(m, A_burn) ==
    LET ratio == Div(m, A_burn[1], Last(A_burn))
    IN  IF IsExc(ratio) THEN Raised(ratio.k)
        ELSE IF Le(Fin(102, 100), ratio) = "true" THEN Returned("Regressive")
        ELSE IF Le(ratio, Fin(98, 100)) = "true" THEN Returned("Progressive")
        ELSE Returned("Neutral")

\* getBurnProfile(A_burn), on numbers of type m
getBurnProfile(m, A_burn) ==
    LET ratio == Div(m, A_burn[1], Last(A_burn))
    IN  IF IsExc(ratio) THEN Raised(ratio.k)
        ELSE IF Lt(Fin(102, 100), ratio) = "true" THEN Returned("Regressive")
        ELSE IF Lt(ratio, Fin(98, 100)) = "true" THEN Returned("Progressive")
        ELSE Returned("Neutral")

\* burn areas of a history, and the histories
BurnAreas == {-50, 0, 49, 50, 51, 100}
Histories ==
    UNION {[1..n -> {Num(v) : v \in BurnAreas}] : n \in 1..MaxHist}

CallGetBurnProfile ==
    /\ callIn # <<>>
    /\ callIn[1].fn = "getBurnProfile"
    /\ callOut = <<>>
    /\ callOut' = <<getBurnProfile(callIn[1].m, callIn[1].A_burn)>>
    /\ UNCHANGED <<callIn, queryVars, mcVars, runVars, solverVars, grainVars>>

InitBurnProfile ==
    /\ callIn \in {<<[fn |-> "getBurnProfile", m |-> m, A_burn |-> h]>> :
                      m \in NumberTypes, h \in Histories}
    /\ callOut = <<>>
    /\ QueryIdle
    /\ RunIdle
    /\ SolverIdle
    /\ GrainIdle
    /\ McIdle

NextBurnProfile == CallGetBurnProfile

BurnProfileSpec == InitBurnProfile /\ [][NextBurnProfile]_vars

\* first and last burn area of the history, as integers
FirstArea == callIn[1].A_burn[1].n
LastArea == Last(callIn[1].A_burn).n

\* first / last > num / 100, and < num / 100, for a last area that is not 0
RatioAbove(num) ==
    \/ LastArea > 0 /\ 100 * FirstArea > num * LastArea
    \/ LastArea < 0 /\ 100 * FirstArea < num * LastArea
RatioBelow(num) ==
    \/ LastArea > 0 /\ 100 * FirstArea < num * LastArea
    \/ LastArea < 0 /\ 100 * FirstArea > num * LastArea

(***************************************************************************)
(* C18: with r = first burn area / last burn area, getBurnProfile returns  *)
(* 'Regressive' iff r > 1.02, 'Progressive' iff r < 0.98 and 'Neutral'     *)
(* otherwise (r = 1.02 and r = 0.98 are Neutral), one class for each       *)
(* history whose ratio is defined.                                         *)
(***************************************************************************)
C18_BurnProfile ==
    (/\ callOut # <<>>
     /\ callIn[1].fn = "getBurnProfile"
     /\ LastArea # 0)
        => /\ callOut[1].exc = "none"
           /\ callOut[1].ret[1] \in {"Regressive", "Progressive", "Neutral"}
           /\ callOut[1].ret[1] = "Regressive" <=> RatioAbove(102)
           /\ callOut[1].ret[1] = "Progressive" <=> RatioBelow(98)
           /\ callOut[1].ret[1] = "Neutral"
                <=> (~RatioAbove(102) /\ ~RatioBelow(98))

\* a history whose ratio is exactly 1.02 was classified Neutral
C18_Witness ==
    /\ callOut # <<>>
    /\ callIn[1].fn = "getBurnProfile"
    /\ Len(callIn[1].A_burn) > 1
    /\ FirstArea = 51
    /\ LastArea = 50
    /\ callOut[1] = Returned("Neutral")

(***************************************************************************)
(* operational_correction_factors                                          *)
(*                                                                         *)
(* Pressures are in psi (so that P0psi[j] is P0[j]), the throat diameter   *)
(* Dt in units of 0.1 mm (Dt / 0.0254 < 1 is Dt < 254).  The correlations  *)
(* of the choked branch are powers and exponentials; their values are kept *)
(* as records that name the correlation and the coefficients it was        *)
(* evaluated with.  C7[j], which only selects the coefficients, is given   *)
(* with the inputs.                                                        *)
(***************************************************************************)
Unbound == [k |-> "unbound", n |-> 0, d |-> 1]
NoCoefficients == [C3 |-> Unbound, C4 |-> Unbound, C5 |-> Unbound,
                   C6 |-> Unbound]

\* C3, C5, C6 = ... : the three assigned together
Assign(co, c3, c5, c6) == [co EXCEPT !.C3 = c3, !.C5 = c5, !.C6 = c6]

\* the if / elif chain on C7[j] of the wide-throat case
ByC7(co, c7, lo, mid, hi) ==
    IF c7 < 4 THEN Assign(co, lo[1], lo[2], lo[3])
    ELSE IF 4 <= c7 /\ c7 <= 8 THEN Assign(co, mid[1], mid[2], mid[3])
    ELSE IF c7 > 8 THEN Assign(co, hi[1], hi[2], hi[3])
    ELSE co

\* the coefficient selection of one index: co holds the local variables C3 ..
\* C6 as the earlier indices left them, invM is 1 / M
Coefficients(co, Dt, c7, invM) ==
    IF Le(Fin(9, 10), invM) = "true" THEN
        LET c == [co EXCEPT !.C4 = Fin(1, 2)]
        IN  IF Dt < 254 THEN Assign(c, Num(9), Num(1), Num(1))
            ELSE IF 254 <= Dt /\ Dt < 508
                THEN Assign(c, Num(9), Num(1), Fin(8, 10))
            ELSE IF Dt >= 508
                THEN ByC7(c, c7, <<Fin(134, 10), Fin(8, 10), Fin(8, 10)>>,
                                 <<Fin(102, 10), Fin(8, 10), Fin(4, 10)>>,
                                 <<Fin(758, 100), Fin(8, 10), Fin(33, 100)>>)
            ELSE c
    ELSE IF Lt(invM, Fin(9, 10)) = "true" THEN
        LET c == [co EXCEPT !.C4 = Num(1)]
        IN  IF Dt < 245 THEN Assign(c, Fin(445, 10), Fin(8, 10), Fin(8, 10))
            ELSE IF 254 <= Dt /\ Dt < 508
                THEN Assign(c, Fin(304, 10), Fin(8, 10), Fin(4, 10))
            ELSE IF Dt >= 508
                THEN ByC7(c, c7, <<Fin(445, 10), Fin(8, 10), Fin(8, 10)>>,
                                 <<Fin(304, 10), Fin(8, 10), Fin(4, 10)>>,
                                 <<Fin(252, 10), Fin(8, 10), Fin(33, 100)>>)
            ELSE c
    ELSE co

\* the value of a correlation of the choked branch at index j
Correlation(name, j, co) == [k |-> name, index |-> j, co |-> co]

\* the kinetic loss of index j
n_kin(m, in, j) ==
    IF Le(Num(200), in.P0psi[j]) = "true"
    THEN Div(m, Mul(Mul(Fin(333, 10), Num(200)),
                    Div(m, in.Isp_frozen, in.Isp_shifting)), in.P0psi[j])
    ELSE Num(0)

\* the loop of operational_correction_factors from index j on; acc holds the
\* arrays filled so far and the coefficients left in the local variables
RECURSIVE CorrectionLoop(_, _, _, _)
CorrectionLoop(m, in, j, acc) ==
    IF j > in.index
    THEN Returned([n_kin |-> acc.n_kin, n_tp |-> acc.n_tp, n_bl |-> acc.n_bl])
    ELSE
    LET kin   == n_kin(m, in, j)
        ratio == Div(m, in.Pe, in.P0[j])
        invM  == Div(m, Num(1), in.M)
        co    == Coefficients(acc.co, in.Dt, in.C7[j], invM)
    IN  IF IsExc(kin) THEN Raised(kin.k)
        ELSE IF IsExc(ratio) THEN Raised(ratio.k)
        ELSE IF Le(ratio, in.critical_pressure_ratio) = "true" THEN
            IF IsExc(invM) THEN Raised(invM.k)
            ELSE IF \E c \in DOMAIN co : co[c] = Unbound
                THEN Raised("UnboundLocalError")
            ELSE CorrectionLoop(m, in, j + 1,
                    [co |-> co,
                     n_kin |-> Append(acc.n_kin, kin),
                     n_tp |-> Append(acc.n_tp, Correlation("n_tp", j, co)),
                     n_bl |-> Append(acc.n_bl,
                                     Correlation("n_bl", j, NoCoefficients))])
        ELSE CorrectionLoop(m, in, j + 1,
                    [co |-> acc.co,
                     n_kin |-> Append(acc.n_kin, kin),
                     n_tp |-> Append(acc.n_tp, Num(0)),
                     n_bl |-> Append(acc.n_bl, Num(0))])

\* operational_correction_factors(...)
operational_correction_factors(m, in) ==
    CorrectionLoop(m, in, 1,
        [co |-> NoCoefficients, n_kin |-> <<>>, n_tp |-> <<>>, n_bl |-> <<>>])

\* chamber pressures (psi) and C7 values of one time index, exit pressures,
\* throat diameters (0.1 mm) and values of M
ChamberPressures == {20, 100, 250, 400}
C7Values == {3, 6, 9}
ExitPressures == {15, 150}
ThroatDiameters == {200, 250, 300, 600}
MValues == {1, 2}

\* the arguments of one call with index = n
CorrectionInput(m, n, P, c7, pe, dt, mm) ==
    [fn |-> "operational_correction_factors", m |-> m, index |-> n,
     P0 |-> [j \in 1..n |-> Num(P[j])],
     P0psi |-> [j \in 1..n |-> Num(P[j])],
     C7 |-> c7, Pe |-> Num(pe), Dt |-> dt, M |-> Num(mm),
     Isp_frozen |-> Num(200), Isp_shifting |-> Num(250),
     critical_pressure_ratio |-> Fin(14, 25)]

CallCorrectionFactors ==
    /\ callIn # <<>>
    /\ callIn[1].fn = "operational_correction_factors"
    /\ callOut = <<>>
    /\ callOut' = <<operational_correction_factors(callIn[1].m, callIn[1])>>
    /\ UNCHANGED <<callIn, queryVars, mcVars, runVars, solverVars, grainVars>>

InitCorrection ==
    /\ \E n \in 1..MaxIndex :
        \E m \in NumberTypes, P \in [1..n -> ChamberPressures],
           c7 \in [1..n -> C7Values], pe \in ExitPressures,
           dt \in ThroatDiameters, mm \in MValues :
            callIn = <<CorrectionInput(m, n, P, c7, pe, dt, mm)>>
    /\ callOut = <<>>
    /\ QueryIdle
    /\ RunIdle
    /\ SolverIdle
    /\ GrainIdle
    /\ McIdle

NextCorrection == CallCorrectionFactors

CorrectionSpec == InitCorrection /\ [][NextCorrection]_vars

\* Pe / P0[j] is above the critical pressure ratio (both pressures positive)
AboveCritical(j) ==
    callIn[1].Pe.n * callIn[1].critical_pressure_ratio.d
        > callIn[1].critical_pressure_ratio.n * callIn[1].P0[j].n

(***************************************************************************)
(* C19: operational_correction_factors returns, for every time index at    *)
(* which Pe / P0[i] is above the critical pressure ratio, 0 for all three  *)
(* losses: n_kin[i], n_tp[i] and n_bl[i].                                  *)
(***************************************************************************)
C19_NoLossAboveCritical ==
    (/\ callOut # <<>>
     /\ callIn[1].fn = "operational_correction_factors"
     /\ callOut[1].exc = "none")
        => \A j \in 1..callIn[1].index :
              AboveCritical(j)
                => /\ callOut[1].ret[1].n_kin[j] = Num(0)
                   /\ callOut[1].ret[1].n_tp[j] = Num(0)
                   /\ callOut[1].ret[1].n_bl[j] = Num(0)

(***************************************************************************)
(* DGrainSegment construction                                              *)
(***************************************************************************)
\* DGrainSegment.validate: TRUE when no assertion fails
DGrainValidate(s) ==
    /\ s.outer_diameter > 0
    /\ s.length > 0
    /\ s.slot_offset > 0

\* dimensions handed to the constructor, in millimetres
SlotOffsets == {0, 10, 30}

\* DGrainSegment(...): the attributes are set, then the base constructor
\* validates; validate is not decorated, so a failed assertion leaves the
\* constructor as AssertionError and no object results
ConstructDGrain ==
    \E od \in {0, 41}, l \in {0, 68}, so \in SlotOffsets, sp \in {10} :
        LET s == DGrainSegment(od, l, so, sp, 5)
        IN  /\ ctorArgs' = <<s>>
            /\ IF DGrainValidate(s)
               THEN /\ segObj' = <<s>>
                    /\ ctorErr' = "none"
               ELSE /\ segObj' = segObj
                    /\ ctorErr' = "AssertionError"
            /\ UNCHANGED <<segments, addCalls, added>>
            /\ UNCHANGED <<runVars, solverVars, extVars>>

NextDGrain ==
    \/ ConstructDGrain
    \/ AddSegment

DGrainSpec == InitGrain /\ [][NextDGrain]_vars

(***************************************************************************)
(* C20: constructing a DGrainSegment with outer_diameter <= 0,             *)
(* length <= 0 or slot_offset <= 0, or with a slot offset beyond the outer *)
(* bound (slot_offset >= outer_diameter / 2), raises GrainGeometryError    *)
(* and yields no segment.                                                  *)
(***************************************************************************)
C20_DGrainRejected ==
    (/\ ctorArgs # <<>>
     /\ \/ ctorArgs[1].outer_diameter <= 0
        \/ ctorArgs[1].length <= 0
        \/ ctorArgs[1].slot_offset <= 0
        \/ 2 * ctorArgs[1].slot_offset >= ctorArgs[1].outer_diameter)
        => /\ ctorErr = "GrainGeometryError"
           /\ segObj # ctorArgs

(***************************************************************************)
(* C29: getBurnProfile returns a classification, and raises nothing, for   *)
(* every non-empty burn-area history a run can produce (burn areas that    *)
(* are never negative), also when the last burn area is 0 because the      *)
(* segment is spent at burnout.                                            *)
(***************************************************************************)
C29_ClassifiesEveryHistory ==
    (/\ callOut # <<>>
     /\ callIn[1].fn = "getBurnProfile"
     /\ \A j \in DOMAIN callIn[1].A_burn : callIn[1].A_burn[j].n >= 0)
        => /\ callOut[1].exc = "none"
           /\ callOut[1].ret[1] \in {"Regressive", "Progressive", "Neutral"}

\* the time index j of the call is choked: Pe / P0[j] <= critical ratio
Choked(j) == ~AboveCritical(j)

\* the coefficients one branch assigns at index j, starting from nothing
FreshCoefficients(j) ==
    Coefficients(NoCoefficients, callIn[1].Dt, callIn[1].C7[j],
                 Div(callIn[1].m, Num(1), callIn[1].M))

(***************************************************************************)
(* C26: in operational_correction_factors, at every choked time index, for *)
(* every throat diameter Dt > 0, every M and every C7[i], one branch       *)
(* assigns C3, C4, C5 and C6 before n_tp[i] is computed: the call never    *)
(* fails on an unassigned coefficient, and n_tp[i] is computed from the    *)
(* coefficients assigned at index i, never from those an earlier index     *)
(* left behind.                                                            *)
(***************************************************************************)
C26_CoefficientsAssigned ==
    (/\ callOut # <<>>
     /\ callIn[1].fn = "operational_correction_factors")
        => /\ callOut[1].exc # "UnboundLocalError"
           /\ callOut[1].exc = "none" =>
                \A j \in 1..callIn[1].index :
                    Choked(j) =>
                        /\ callOut[1].ret[1].n_tp[j].co = FreshCoefficients(j)
                        /\ \A c \in {"C3", "C4", "C5", "C6"} :
                              callOut[1].ret[1].n_tp[j].co[c] # Unbound

(***************************************************************************)
(* BATES.massFluxPerGrain                                                  *)
(***************************************************************************)
\* circle_area(diameter) = pi * 0.25 * diameter ** 2, in units of pi / 4
circle_area(diameter) == diameter * diameter

\* accumulated_grain_Ab[j, i]: burnArea(x[i], k) summed over k = 0 .. j, in
\* units of pi / 4
RECURSIVE accumulated_grain_Ab(_, _, _)
accumulated_grain_Ab(g, xi, j) ==
    IF j = 0 THEN 0
    ELSE burnArea(xi, g[j]).pi4 + accumulated_grain_Ab(g, xi, j - 1)

\* massFluxPerGrain(r, pp, x): grain_mass_flux[j, i]
massFluxPerGrain(g, r, pp, x) ==
    [j \in 1..Len(g) |->
        [k \in 1..Len(x) |->
            Div("float64",
                Num(accumulated_grain_Ab(g, x[k], j) * pp * r[k]),
                Num(circle_area(g[j].d + x[k])))]]

CallMassFlux ==
    /\ callIn # <<>>
    /\ callIn[1].fn = "massFluxPerGrain"
    /\ callOut = <<>>
    /\ callOut' = <<Returned(massFluxPerGrain(callIn[1].g, callIn[1].r,
                                              callIn[1].pp, callIn[1].x))>>
    /\ UNCHANGED <<callIn, queryVars, mcVars, runVars, solverVars, grainVars>>

\* a BATES object of Grains, web distances x and burn rates r of the same
\* size, the density pp
InitMassFlux ==
    /\ \E g \in Grains, n \in 1..MaxSamples :
        \E x \in [1..n -> 0..1], r \in [1..n -> 1..2] :
            callIn = <<[fn |-> "massFluxPerGrain", g |-> g, r |-> r,
                        pp |-> 3, x |-> x]>>
    /\ callOut = <<>>
    /\ QueryIdle
    /\ RunIdle
    /\ SolverIdle
    /\ GrainIdle
    /\ McIdle

NextMassFlux == CallMassFlux

MassFluxSpec == InitMassFlux /\ [][NextMassFlux]_vars

(***************************************************************************)
(* C30: BATES.massFluxPerGrain computes the mass flux of segment j at web  *)
(* distance x[i] as density * r[i] * (the sum of burnArea(x[i], k) for     *)
(* k = 0 .. j) divided by the port area of segment j, the circle of the    *)
(* regressed core diameter D_core[j] + 2 * x[i] that burnArea and          *)
(* grainVolume use.                                                        *)
(***************************************************************************)
C30_MassFluxOverRegressedPort ==
    (/\ callOut # <<>>
     /\ callIn[1].fn = "massFluxPerGrain")
        => \A j \in 1..Len(callIn[1].g), k \in 1..Len(callIn[1].x) :
              callOut[1].ret[1][j][k]
                = Div("float64",
                      Num(accumulated_grain_Ab(callIn[1].g, callIn[1].x[k], j)
                            * callIn[1].pp * callIn[1].r[k]),
                      Num(circle_area(callIn[1].g[j].d
                                        + 2 * callIn[1].x[k])))

(***************************************************************************)
(* One solve step when the derivative is the same at every pressure, in    *)
(* exact arithmetic and in binary floating point (round to nearest, ties   *)
(* to even, Precision significant bits).                                   *)
(***************************************************************************)
RECURSIVE Pow2(_)
Pow2(e) == IF e = 0 THEN 1 ELSE 2 * Pow2(e - 1)

\* n / d rounded to the nearest integer, ties to the even one (n >= 0, d > 0)
RoundHalfEven(n, d) ==
    LET fl  == n \div d
        rem == n % d
    IN  IF 2 * rem > d \/ (2 * rem = d /\ fl % 2 = 1) THEN fl + 1 ELSE fl

\* n / d divided by 2^e, as a numerator and a denominator
Scaled(n, d, e) ==
    IF e < 0 THEN [num |-> n * Pow2(-e), den |-> d]
    ELSE [num |-> n, den |-> d * Pow2(e)]

\* the exponent e with 2^(Precision-1) <= (n / d) / 2^e < 2^Precision, found
\* from the exponent e upwards or downwards
RECURSIVE Exponent(_, _, _)
Exponent(n, d, e) ==
    LET q == Scaled(n, d, e)
    IN  IF q.num >= Pow2(Precision) * q.den THEN Exponent(n, d, e + 1)
        ELSE IF q.num < Pow2(Precision - 1) * q.den THEN Exponent(n, d, e - 1)
        ELSE e

\* the floating-point number nearest to the finite value a
Round(a) ==
    IF a.n = 0 THEN a
    ELSE
    LET s == IF a.n < 0 THEN -1 ELSE 1
        e == Exponent(Abs(a.n), a.d, 0)
        q == Scaled(Abs(a.n), a.d, e)
        mant == RoundHalfEven(q.num, q.den)
    IN  IF e < 0 THEN Fin(s * mant, Pow2(-e)) ELSE Num(s * mant * Pow2(e))

\* a + b, a * b and a / b in the arithmetic ar
ArAdd(ar, a, b) == IF ar = "binary" THEN Round(Add(a, b)) ELSE Add(a, b)
ArMul(ar, a, b) == IF ar = "binary" THEN Round(Mul(a, b)) ELSE Mul(a, b)
ArDiv(ar, a, b) ==
    IF ar = "binary" THEN Round(Div("float64", a, b))
    ELSE Div("float64", a, b)

RK4ReturnUnweighted(ar, chamber_pressure, k_1, k_2, k_3, k_4, step) ==
    ArAdd(ar, chamber_pressure,
          ArMul(ar,
                ArMul(ar, ArDiv(ar, Num(1), Num(6)),
                      ArAdd(ar, ArAdd(ar, k_1, ArAdd(ar, k_2, k_3)), k_4)),
                step))

\* the value solve returns:
\* chamber_pressure + (1 / 6) * (k_1 + 2 * (k_2 + k_3) + k_4) * d_t
RK4Return(ar, chamber_pressure, k_1, k_2, k_3, k_4, step) ==
    ArAdd(ar, chamber_pressure,
          ArMul(ar,
                ArMul(ar, ArDiv(ar, Num(1), Num(6)),
                      ArAdd(ar,
                            ArAdd(ar, k_1,
                                  ArMul(ar, Num(2), ArAdd(ar, k_2, k_3))),
                            k_4)),
                step))

\* solve called on the pressure the call before returned (on the initial
\* pressure at first), every derivative evaluation yielding c
SolveLinear ==
    /\ callIn # <<>>
    /\ callIn[1].fn = "solve"
    /\ Len(callOut) < MaxSteps
    /\ \E P \in {IF callOut = <<>> THEN callIn[1].P
                 ELSE callOut[Len(callOut)]} :
       \E c \in {callIn[1].c} :
          callOut' = Append(callOut,
                            RK4Return(callIn[1].ar, P, c, c, c, c,
                                      callIn[1].d_t))
    /\ UNCHANGED <<callIn, queryVars, mcVars, runVars, solverVars, grainVars>>

\* pressures, derivatives and time steps that are floating-point numbers
InitLinear ==
    /\ \E ar \in {"exact", "binary"},
          P \in {0, 3, Pow2(Precision - 1) + 1},
          c \in {Pow2(Precision - 1) + j : j \in 0..7},
          h \in {1, 2} :
            callIn = <<[fn |-> "solve", ar |-> ar, P |-> Num(P),
                        c |-> Num(c), d_t |-> Fin(1, h)]>>
    /\ callOut = <<>>
    /\ QueryIdle
    /\ RunIdle
    /\ SolverIdle
    /\ GrainIdle
    /\ McIdle

NextLinear == SolveLinear

LinearGrowthSpec == InitLinear /\ [][NextLinear]_vars

\* the pressure before the n-th call and the analytic pressure after it
LinearBefore(n) == IF n = 1 THEN callIn[1].P ELSE callOut[n - 1]
LinearAfter(n) == Add(LinearBefore(n), Mul(callIn[1].c, callIn[1].d_t))

\* P + c * d_t and P + n * c * d_t as the arithmetic of the call evaluates
\* them
StepAfter(n) ==
    ArAdd(callIn[1].ar, LinearBefore(n),
          ArMul(callIn[1].ar, callIn[1].c, callIn[1].d_t))
StepsAfter(n) ==
    ArAdd(callIn[1].ar, callIn[1].P,
          ArMul(callIn[1].ar, ArMul(callIn[1].ar, Num(n), callIn[1].c),
                callIn[1].d_t))

(***************************************************************************)
(* C24 as stated: with a constant derivative c, one call of solve returns  *)
(* exactly P + c * d_t, so n successive steps return P + n * c * d_t.      *)
(***************************************************************************)
C24_ExactlyLinear ==
    (callIn # <<>> /\ callIn[1].fn = "solve")
        => \A n \in 1..Len(callOut) :
              /\ callOut[n] = StepAfter(n)
              /\ callOut[n] = StepsAfter(n)

(***************************************************************************)
(* C24 amended: with a constant derivative c, one call of solve returns    *)
(* P + c * d_t up to the rounding of floating-point arithmetic: in exact   *)
(* arithmetic n successive steps return exactly P + n * c * d_t, and in    *)
(* binary floating point each step differs from P + c * d_t by at most     *)
(* 8 * 2^-Precision of that value (P >= 0, c > 0), without being equal to  *)
(* it in general.                                                          *)
(***************************************************************************)
C24_LinearUpToRounding ==
    (callIn # <<>> /\ callIn[1].fn = "solve")
        => \A n \in 1..Len(callOut) :
              /\ callIn[1].ar = "exact" =>
                    callOut[n] = Add(callIn[1].P,
                                     Mul(Num(n),
                                         Mul(callIn[1].c, callIn[1].d_t)))
              /\ callIn[1].ar = "binary" =>
                    LET err   == Sub(callOut[n], LinearAfter(n))
                        bound == Mul(Num(8), LinearAfter(n))
                    IN  /\ Le(Mul(Num(Pow2(Precision)), err), bound) = "true"
                        /\ Le(Mul(Num(-Pow2(Precision)), err), bound) = "true"

\* a floating-point step has missed the analytic value, after a step that
\* met it
C24_Witness ==
    /\ callIn # <<>>
    /\ callIn[1].fn = "solve"
    /\ callIn[1].ar = "binary"
    /\ Len(callOut) >= 2
    /\ callOut[1] = StepAfter(1)
    /\ callOut[2] # StepAfter(2)

(***************************************************************************)
(* MonteCarloSimulation.  Objects live in mcHeap under their identity; a   *)
(* value is a number, a reference to an object, a list of values or a      *)
(* dict.  An object is [cls, attrs], attrs the record of its attributes.   *)
(***************************************************************************)
SEARCH_TREE_DEPTH_LIMIT == 20

NumV(n) == [kind |-> "num", v |-> n]
RefV(id) == [kind |-> "ref", id |-> id]
ListV(items) == [kind |-> "list", items |-> items]
DictV == [kind |-> "dict"]
NewObject(cls, attrs) == [cls |-> cls, attrs |-> attrs]

\* MonteCarloParameter(value)
MonteCarloParameter(value) ==
    NewObject("MonteCarloParameter", [value |-> NumV(value)])

\* isinstance(v, MonteCarloParameter)
IsMonteCarloParameter(h, v) ==
    v.kind = "ref" /\ h[v.id].cls = "MonteCarloParameter"

\* the attribute names of the objects of the model, in the order the
\* attribute dicts list them
AttrNames == <<"value", "grain", "segments", "core", "other", "me">>

\* obtain_attributes_from_object(v): the attributes of an object, none for a
\* value that has no attributes
obtain_attributes_from_object(h, v) ==
    IF v.kind = "ref" THEN h[v.id].attrs ELSE <<>>

\* the objects a value refers to directly
RECURSIVE RefsOf(_)
RefsOf(v) ==
    IF v.kind = "ref" THEN {v.id}
    ELSE IF v.kind = "list"
        THEN UNION {RefsOf(v.items[k]) : k \in DOMAIN v.items}
    ELSE {}

\* the objects reachable from the objects S
RECURSIVE Reachable(_, _)
Reachable(h, S) ==
    LET next == S \cup UNION {UNION {RefsOf(h[id].attrs[a]) :
                                         a \in DOMAIN h[id].attrs} : id \in S}
    IN  IF next = S THEN S ELSE Reachable(h, next)

\* the objects reachable from a sequence of values
ReachableFrom(h, vals) ==
    Reachable(h, UNION {RefsOf(vals[k]) : k \in DOMAIN vals})

\* a value with every reference moved by off
RECURSIVE Moved(_, _)
Moved(v, off) ==
    IF v.kind = "ref" THEN RefV(v.id + off)
    ELSE IF v.kind = "list"
        THEN ListV([k \in DOMAIN v.items |-> Moved(v.items[k], off)])
    ELSE v

deepcopyShallow(h, vals) == [heap |-> h, vals |-> vals]

\* deepcopy(vals): every object reachable from vals is copied once, to a new
\* identity, and the copies refer to one another as the originals do
deepcopy(h, vals) ==
    LET off  == SetMax(DOMAIN h \cup {0})
        objs == ReachableFrom(h, vals)
    IN  [heap |-> [id \in DOMAIN h \cup {o + off : o \in objs} |->
                      IF id \in DOMAIN h THEN h[id]
                      ELSE NewObject(h[id - off].cls,
                               [a \in DOMAIN h[id - off].attrs |->
                                   Moved(h[id - off].attrs[a], off)])],
         vals |-> [k \in DOMAIN vals |-> Moved(vals[k], off)]]

\* MonteCarloParameter.get_random_value, draw being what the generator adds
get_random_value(h, v, draw) == NumV(h[v.id].attrs.value.v + draw)

\* d[key] = entry on a dict kept as the sequence of its entries
DictPut(d, key, entry) ==
    IF \E k \in DOMAIN d : d[k].key = key
    THEN [k \in DOMAIN d |-> IF d[k].key = key THEN entry ELSE d[k]]
    ELSE Append(d, entry)

\* d[key]
DictGet(d, key) == d[CHOOSE k \in DOMAIN d : d[k].key = key]

\* for item in attr: the body of the loop for the items from the k-th on
RECURSIVE ProcessItems(_, _, _, _)
ProcessItems(st, object_uuid, items, k) ==
    IF k > Len(items) THEN st
    ELSE IF items[k].kind = "dict"
        THEN ProcessItems(st, object_uuid, items, k + 1)
    ELSE Bind([st EXCEPT
                 !.store = DictPut(@, object_uuid,
                                   [key |-> object_uuid, value |-> items[k]]),
                 !.new_search_tree =
                     DictPut(@, object_uuid,
                             [key |-> object_uuid,
                              attrs |-> obtain_attributes_from_object(
                                            st.heap, items[k])])],
              LAMBDA st2 : ProcessItems(st2, object_uuid, items, k + 1))

\* the body of  for name, attr in sub_params.items()  for one attribute of
\* the object param
ProcessAttr(st, param, name, attr, draw) ==
    IF IsMonteCarloParameter(st.heap, attr)
    THEN [st EXCEPT !.uuid = @ + 1,
                    !.heap[param.id].attrs[name] =
                        get_random_value(st.heap, attr, draw)]
    ELSE IF attr.kind = "list"
        THEN Bind([st EXCEPT !.uuid = @ + 1], LAMBDA st1 :
                 ProcessItems(st1, st1.uuid, attr.items, 1))
    ELSE [st EXCEPT
            !.uuid = @ + 2,
            !.store = Append(@, [key |-> st.uuid + 2, value |-> attr]),
            !.new_search_tree =
                Append(@, [key |-> st.uuid + 2,
                           attrs |-> obtain_attributes_from_object(st.heap,
                                                                   attr)])]

\* the attributes of one entry of the search tree, from the n-th name on
RECURSIVE ProcessAttrs(_, _, _, _)
ProcessAttrs(st, entry, n, draw) ==
    IF n > Len(AttrNames) THEN st
    ELSE IF AttrNames[n] \notin DOMAIN entry.attrs
        THEN ProcessAttrs(st, entry, n + 1, draw)
    ELSE Bind(ProcessAttr(st, DictGet(st.store, entry.key).value,
                          AttrNames[n], entry.attrs[AttrNames[n]], draw),
              LAMBDA st2 : ProcessAttrs(st2, entry, n + 1, draw))

\* for param_uuid, sub_params in search_tree.items(), from the e-th entry on
RECURSIVE ProcessEntries(_, _, _, _)
ProcessEntries(st, search_tree, e, draw) ==
    IF e > Len(search_tree) THEN st
    ELSE Bind(ProcessAttrs(st, search_tree[e], 1, draw), LAMBDA st2 :
              ProcessEntries(st2, search_tree, e + 1, draw))

RECURSIVE WhileLoopInclusive(_, _, _, _)
WhileLoopInclusive(st, search_tree, iter, draw) ==
    IF search_tree = <<>> \/ iter > SEARCH_TREE_DEPTH_LIMIT
    THEN [heap |-> st.heap, store |-> st.store, uuid |-> st.uuid,
          iterations |-> iter, left |-> Len(search_tree)]
    ELSE Bind(ProcessEntries([st EXCEPT !.new_search_tree = <<>>],
                             search_tree, 1, draw),
              LAMBDA st2 : WhileLoopInclusive(st2, st2.new_search_tree,
                                              iter + 1, draw))

\* while search_tree and i < SEARCH_TREE_DEPTH_LIMIT, entered with i = iter;
\* yields the memory as the loop leaves it, the iterations made and the
\* number of entries left in the search tree
RECURSIVE WhileLoop(_, _, _, _)
WhileLoop(st, search_tree, iter, draw) ==
    IF search_tree = <<>> \/ iter >= SEARCH_TREE_DEPTH_LIMIT
    THEN [heap |-> st.heap, store |-> st.store, uuid |-> st.uuid,
          iterations |-> iter, left |-> Len(search_tree)]
    ELSE Bind(ProcessEntries([st EXCEPT !.new_search_tree = <<>>],
                             search_tree, 1, draw),
              LAMBDA st2 : WhileLoop(st2, st2.new_search_tree, iter + 1,
                                     draw))

\* MonteCarloSimulation._process_nested_parameters(parameter)
process_nested_parameters(h, store, uuid, parameter, draw) ==
    WhileLoop([heap |-> h,
               store |-> Append(store, [key |-> uuid + 1,
                                        value |-> parameter]),
               uuid |-> uuid + 1,
               new_search_tree |-> <<>>],
              <<[key |-> uuid + 1,
                 attrs |-> obtain_attributes_from_object(h, parameter)]>>,
              0, draw)

\* for parameter in parameters_copy, from the k-th parameter on; acc holds
\* the memory, new_scenario and the record of the nested searches made
RECURSIVE ScenarioLoop(_, _, _, _)
ScenarioLoop(acc, parameters_copy, k, draw) ==
    IF k > Len(parameters_copy) THEN acc
    ELSE IF IsMonteCarloParameter(acc.heap, parameters_copy[k])
        THEN Bind([acc EXCEPT !.new_scenario =
                       Append(@, get_random_value(acc.heap,
                                                  parameters_copy[k], draw))],
                  LAMBDA acc2 : ScenarioLoop(acc2, parameters_copy, k + 1,
                                             draw))
    ELSE Bind(process_nested_parameters(acc.heap, acc.store, acc.uuid,
                                        parameters_copy[k], draw),
              LAMBDA r :
         Bind([heap |-> r.heap, store |-> r.store, uuid |-> r.uuid,
               new_scenario |-> Append(acc.new_scenario, parameters_copy[k]),
               nested |-> Append(acc.nested,
                                 [iterations |-> r.iterations,
                                  left |-> r.left])],
              LAMBDA acc2 : ScenarioLoop(acc2, parameters_copy, k + 1,
                                         draw)))

\* MonteCarloSimulation.generate_scenario, up to the append to
\* self.scenarios
generate_scenario(h, params, store, uuid, draw) ==
    Bind(deepcopy(h, params), LAMBDA c :
        ScenarioLoop([heap |-> c.heap, store |-> store, uuid |-> uuid,
                      new_scenario |-> <<>>, nested |-> <<>>],
                     c.vals, 1, draw))

\* what the random generators add to the value of a parameter
Draws == {-1, 1}

\* generate_scenario called from outside
GenerateScenario ==
    /\ mcPc = "idle"
    /\ Len(scenarios) < MaxScenarios
    /\ \E draw \in Draws :
       \E r \in {generate_scenario(mcHeap, parameters, object_store,
                                   mcLog.uuid, draw)} :
          /\ mcHeap' = r.heap
          /\ object_store' = r.store
          /\ scenarios' = Append(scenarios, r.new_scenario)
          /\ mcLog' = [mcLog EXCEPT !.direct = @ + 1, !.uuid = r.uuid,
                                    !.nested = r.nested]
    /\ UNCHANGED <<parameters, number_of_scenarios, results, mcPc, mcLeft>>
    /\ UNCHANGED <<queryVars, callVars, runVars, solverVars, grainVars>>

\* run: self.results = [] and the loop is entered
RunStart ==
    /\ mcPc = "idle"
    /\ Len(scenarios) + number_of_scenarios <= MaxScenarios
    /\ results' = <<>>
    /\ mcPc' = "run"
    /\ mcLeft' = number_of_scenarios
    /\ UNCHANGED <<mcHeap, parameters, number_of_scenarios, scenarios,
                   object_store, mcLog>>
    /\ UNCHANGED <<queryVars, callVars, runVars, solverVars, grainVars>>

\* one iteration of the loop of run; the result of the simulation is kept as
\* the scenario it was run on
RunScenario ==
    /\ mcPc = "run"
    /\ mcLeft > 0
    /\ \E draw \in Draws :
       \E r \in {generate_scenario(mcHeap, parameters, object_store,
                                   mcLog.uuid, draw)} :
          /\ mcHeap' = r.heap
          /\ object_store' = r.store
          /\ scenarios' = Append(scenarios, r.new_scenario)
          /\ results' = Append(results, [of |-> r.new_scenario])
          /\ mcLog' = [mcLog EXCEPT !.uuid = r.uuid, !.nested = r.nested]
    /\ mcLeft' = mcLeft - 1
    /\ UNCHANGED <<parameters, number_of_scenarios, mcPc>>
    /\ UNCHANGED <<queryVars, callVars, runVars, solverVars, grainVars>>

\* run returns
RunReturn ==
    /\ mcPc = "run"
    /\ mcLeft = 0
    /\ mcPc' = "idle"
    /\ mcLog' = [mcLog EXCEPT !.runs = @ + 1]
    /\ UNCHANGED <<mcHeap, parameters, number_of_scenarios, scenarios,
                   results, object_store, mcLeft>>
    /\ UNCHANGED <<queryVars, callVars, runVars, solverVars, grainVars>>

\* the parameter lists of the model, each with the objects it refers to:
\* plain numbers and parameters; a motor whose grain holds a list of two
\* segments; an object that refers to itself; two objects that refer to each
\* other; two motors sharing one grain; a list with a dict in it
McFixtures ==
    { [heap |-> <<MonteCarloParameter(5)>>,
       parameters |-> <<NumV(3), RefV(1)>>],
      [heap |-> <<NewObject("Motor", [grain |-> RefV(2), core |-> RefV(5)]),
                  NewObject("Grain", [segments |-> ListV(<<RefV(3), RefV(4)>>)]),
                  NewObject("Segment", [core |-> RefV(6)]),
                  NewObject("Segment", [core |-> RefV(7)]),
                  MonteCarloParameter(2),
                  MonteCarloParameter(4),
                  MonteCarloParameter(6)>>,
       parameters |-> <<RefV(1)>>],
      [heap |-> <<NewObject("Node", [me |-> RefV(1), core |-> RefV(2)]),
                  MonteCarloParameter(2)>>,
       parameters |-> <<RefV(1)>>],
      [heap |-> <<NewObject("Node", [other |-> RefV(2)]),
                  NewObject("Node", [other |-> RefV(1), core |-> RefV(3)]),
                  MonteCarloParameter(2)>>,
       parameters |-> <<RefV(1), RefV(2)>>],
      [heap |-> <<NewObject("Motor", [grain |-> RefV(3)]),
                  NewObject("Motor", [grain |-> RefV(3)]),
                  NewObject("Grain", [core |-> RefV(4)]),
                  MonteCarloParameter(2)>>,
       parameters |-> <<RefV(1), RefV(2)>>],
      [heap |-> <<NewObject("Grain",
                            [segments |-> ListV(<<RefV(2), DictV>>),
                             core |-> NumV(1)]),
                  NewObject("Segment", [core |-> RefV(3)]),
                  MonteCarloParameter(2)>>,
       parameters |-> <<RefV(1)>>] }

\* MonteCarloSimulation(parameters, number_of_scenarios, simulation)
InitMonteCarlo ==
    /\ \E f \in McFixtures :
          /\ mcHeap = f.heap
          /\ parameters = f.parameters
    /\ number_of_scenarios \in 1..2
    /\ scenarios = <<>>
    /\ results = <<>>
    /\ object_store = <<>>
    /\ mcPc = "idle"
    /\ mcLeft = 0
    /\ mcLog = [runs |-> 0, direct |-> 0, uuid |-> 0, nested |-> <<>>]
    /\ QueryIdle
    /\ CallIdle
    /\ RunIdle
    /\ SolverIdle
    /\ GrainIdle

NextMonteCarlo ==
    \/ GenerateScenario
    \/ RunStart
    \/ RunScenario
    \/ RunReturn

MonteCarloSpec == InitMonteCarlo /\ [][NextMonteCarlo]_vars

\* the objects a scenario (or the parameter list) reaches
ObjectsOf(vals) == ReachableFrom(mcHeap, vals)

\* no object is shared between two scenarios or between a scenario and the
\* original parameters
NoSharedObject ==
    /\ \A k \in DOMAIN scenarios :
          ObjectsOf(scenarios[k]) \cap ObjectsOf(parameters) = {}
    /\ \A k \in DOMAIN scenarios : \A n \in DOMAIN scenarios :
          k # n => ObjectsOf(scenarios[k]) \cap ObjectsOf(scenarios[n]) = {}

\* a step leaves self.parameters and every object reachable from it as they
\* were
ParametersUntouched ==
    /\ parameters' = parameters
    /\ \A id \in ObjectsOf(parameters) :
          id \in DOMAIN mcHeap' /\ mcHeap'[id] = mcHeap[id]

\* C21: generate_scenario and run never change self.parameters or an object
\* reachable from it, and no object is ever shared between two scenarios or
\* between a scenario and the original parameters.
C21_ParametersNeverMutated ==
    [](NoSharedObject) /\ [][ParametersUntouched]_vars

\* C21 happens: after a run and a direct generate_scenario there are two
\* scenarios holding objects, and the originals still hold a
\* MonteCarloParameter.
C21_Witness ==
    /\ mcLog.runs >= 1
    /\ mcLog.direct >= 1
    /\ Len(scenarios) >= 2
    /\ ObjectsOf(scenarios[1]) # {}
    /\ ObjectsOf(scenarios[2]) # {}
    /\ \E id \in ObjectsOf(parameters) :
          mcHeap[id].cls = "MonteCarloParameter"

\* C25: no MonteCarloParameter is left in a generated scenario, neither at
\* the top level nor on an object reachable through attributes and the
\* elements of list attributes.
C25_NoParameterRemains ==
    \A k \in DOMAIN scenarios :
        \A id \in ObjectsOf(scenarios[k]) :
            mcHeap[id].cls # "MonteCarloParameter"

\* C27: every search of _process_nested_parameters made by the last
\* generate_scenario left its loop after at most SEARCH_TREE_DEPTH_LIMIT
\* iterations, and before the limit only with an empty search tree.
C27_SearchBounded ==
    \A k \in DOMAIN mcLog.nested :
        /\ mcLog.nested[k].iterations <= SEARCH_TREE_DEPTH_LIMIT
        /\ mcLog.nested[k].iterations < SEARCH_TREE_DEPTH_LIMIT
               => mcLog.nested[k].left = 0

\* C27 happens: a search over a cyclic graph was cut at the limit with
\* entries left in the search tree.
C27_Witness ==
    \E k \in DOMAIN mcLog.nested :
        /\ mcLog.nested[k].iterations = SEARCH_TREE_DEPTH_LIMIT
        /\ mcLog.nested[k].left > 0

\* C28: when no generate_scenario was called from outside and a run has
\* returned, results holds number_of_scenarios entries and scenarios holds as
\* many, scenarios[k] being the scenario results[k] came from.
C28_ScenariosMatchResults ==
    (mcPc = "idle" /\ mcLog.runs >= 1 /\ mcLog.direct = 0)
        => /\ Len(results) = number_of_scenarios
           /\ Len(scenarios) = Len(results)
           /\ \A k \in DOMAIN results : results[k].of = scenarios[k]

(***************************************************************************)
(* services/export_formats.py: generate_eng_file_content.  Times are       *)
(* counted in hundredths of a second; an interpolated number is the exact  *)
(* fraction <<n, d>>, d > 0.  A printed number is the text of a fixed      *)
(* point format: its sign, its digits as a count of units of the last      *)
(* decimal, and the number of decimals.                                    *)
(***************************************************************************)
RECURSIVE Pow10(_)
Pow10(e) == IF e = 0 THEN 1 ELSE 10 * Pow10(e - 1)

\* f"{x:.<decimals>f}" of the fraction n/d of the unit 1/per: the magnitude
\* rounded half to even on the last decimal, "-" kept in front of a negative
\* number even when it rounds to zero
FormatFixed(n, d, per, decimals) ==
    [sign     |-> IF n < 0 THEN "-" ELSE "",
     units    |-> RoundHalfEven(Abs(n) * Pow10(decimals), d * per),
     decimals |-> decimals]

\* float(text) of a printed number, in units of its last decimal
ParseFixed(text) == IF text.sign = "-" THEN -text.units ELSE text.units

\* np.where(time <= burn_time)[0] followed by arr[burn_index]
TrimToBurnTime(arr, time_arr, burn_time) ==
    SelectSeq([k \in DOMAIN arr |-> [at |-> time_arr[k], v |-> arr[k]]],
              LAMBDA e : e.at <= burn_time)

\* np.linspace(0, stop, num)[k + 1], k counted from 0
linspace(stop, num, k) ==
    IF num = 1 THEN <<0, 1>> ELSE <<k * stop, num - 1>>

\* np.interp(x, xp, fp, left, right) for one x = <<n, d>>
interp(x, xp, fp, left, right) ==
    LET n == Len(xp)
    IN  IF x[1] < xp[1] * x[2] THEN <<left, 1>>
        ELSE IF x[1] > xp[n] * x[2] THEN <<right, 1>>
        ELSE IF x[1] = xp[n] * x[2] THEN <<fp[n], 1>>
        ELSE LET j == CHOOSE k \in 1..(n - 1) :
                          /\ xp[k] * x[2] <= x[1]
                          /\ x[1] < xp[k + 1] * x[2]
             IN  <<fp[j] * x[2] * (xp[j + 1] - xp[j])
                       + (fp[j + 1] - fp[j]) * (x[1] - xp[j] * x[2]),
                   x[2] * (xp[j + 1] - xp[j])>>

InterpolateThrustHeld(x, xp, fp) == interp(x, xp, fp, fp[1], fp[Len(fp)])

\* np.interp(t_out, time, thrust, left=0, right=0) for one t_out
InterpolateThrust(x, xp, fp) == interp(x, xp, fp, 0, 0)

\* np.interp(t_out, time, propellant_mass, right=0) for one t_out
InterpolateMass(x, xp, fp) == interp(x, xp, fp, fp[1], 0)

\* generate_eng_file_content(time, thrust, propellant_mass, burn_time, ...,
\* motor_mass, ..., eng_res): what the call returns or raises
generate_eng_file_content(time_arr, thrust_arr, propellant_mass, burn_time, motor_mass, eng_res) ==
    LET kept   == TrimToBurnTime(time_arr, time_arr, burn_time)
        tm     == [k \in DOMAIN kept |-> kept[k].v]
        th_all == TrimToBurnTime(thrust_arr, time_arr, burn_time)
        th     == [k \in DOMAIN th_all |-> th_all[k].v]
        pm_all == TrimToBurnTime(propellant_mass, time_arr, burn_time)
        pm     == [k \in DOMAIN pm_all |-> pm_all[k].v]
    IN  IF tm = <<>> THEN Raised("IndexError")
        ELSE IF eng_res < 0 THEN Raised("ValueError")
        ELSE IF eng_res = 0 THEN Raised("IndexError")
        ELSE Bind(InterpolateMass(linspace(tm[Len(tm)], eng_res, 0), tm, pm),
                  LAMBDA m0 :
             Returned(
               [comment |-> "; Generated by Machwave program",
                header  |-> [mass  |-> FormatFixed(m0[1], m0[2], 1, 4),
                             total |-> FormatFixed(m0[1] + motor_mass * m0[2],
                                                   m0[2], 1, 4)],
                lines   |-> [k \in 1..eng_res |->
                    Bind(linspace(tm[Len(tm)], eng_res, k - 1), LAMBDA x :
                    Bind(InterpolateThrust(x, tm, th), LAMBDA f :
                        [time   |-> FormatFixed(x[1], x[2], 100, 2),
                         thrust |-> FormatFixed(f[1], f[2], 1, 0)]))],
                end     |-> ";"]))

CallGenerateEng ==
    /\ callIn # <<>>
    /\ callIn[1].fn = "generate_eng_file_content"
    /\ callOut = <<>>
    /\ \E r \in {generate_eng_file_content(callIn[1].time, callIn[1].thrust,
                     callIn[1].propellant_mass, callIn[1].burn_time,
                     callIn[1].motor_mass, callIn[1].eng_res)} :
          callOut' = <<r>>
    /\ UNCHANGED <<callIn, queryVars, mcVars, runVars, solverVars, grainVars>>

\* the thrust samples of the exported curves, in newtons
ThrustSamples == {0, 1, 3}

\* the strictly increasing sample times of length n
IncreasingTimes(n) ==
    {s \in [1..n -> 0..MaxTick] : \A k \in 1..(n - 1) : s[k] < s[k + 1]}

InitEng ==
    /\ \E n \in 1..MaxSamples :
        \E tm \in IncreasingTimes(n), th \in [1..n -> ThrustSamples],
           bt \in -1..MaxTick, res \in 0..MaxRes :
            callIn = <<[fn |-> "generate_eng_file_content",
                        time |-> tm, thrust |-> th,
                        propellant_mass |-> [k \in 1..n |-> n - k],
                        burn_time |-> bt, motor_mass |-> 5,
                        eng_res |-> res]>>
    /\ callOut = <<>>
    /\ QueryIdle
    /\ RunIdle
    /\ SolverIdle
    /\ GrainIdle
    /\ McIdle

NextEng == CallGenerateEng

EngSpec == InitEng /\ [][NextEng]_vars

\* the call of generate_eng_file_content has returned its content
EngReturned ==
    /\ callIn # <<>>
    /\ callIn[1].fn = "generate_eng_file_content"
    /\ callOut # <<>>
    /\ callOut[1].exc = "none"

\* the data lines of the returned content
EngLines == callOut[1].ret[1].lines

\* C22: for a time array that starts at 0 and increases, burn_time > 0 and
\* eng_res >= 2, the printed time column starts at 0.00 and strictly
\* increases from each data line to the next.
C22_TimeColumnIncreasing ==
    (/\ EngReturned
     /\ callIn[1].time[1] = 0
     /\ callIn[1].burn_time > 0
     /\ callIn[1].eng_res >= 2)
        => /\ ParseFixed(EngLines[1].time) = 0
           /\ \A k \in 1..(Len(EngLines) - 1) :
                 ParseFixed(EngLines[k].time) < ParseFixed(EngLines[k + 1].time)

\* the sample times kept by the trim to burn_time
EngKeptTimes ==
    SelectSeq(callIn[1].time, LAMBDA at : at <= callIn[1].burn_time)

\* C23: every thrust of the data lines is printed without decimals and
\* without a minus sign, and is 0 on a data line whose time lies before the
\* first sample.
C23_ThrustNonNegative ==
    EngReturned =>
        \A k \in DOMAIN EngLines :
            /\ EngLines[k].thrust.decimals = 0
            /\ EngLines[k].thrust.sign = ""
            /\ ParseFixed(EngLines[k].thrust) >= 0
            /\ linspace(EngKeptTimes[Len(EngKeptTimes)], callIn[1].eng_res,
                        k - 1)[1] < EngKeptTimes[1] => EngLines[k].thrust.units = 0

\* C23 happens: a returned content has a data line before the first sample,
\* where the first thrust sample is positive, and a data line with positive
\* thrust.
C23_Witness ==
    /\ EngReturned
    /\ callIn[1].time[1] > 0
    /\ callIn[1].thrust[1] > 0
    /\ Len(EngLines) >= 3
    /\ \E k \in DOMAIN EngLines : EngLines[k].thrust.units > 0

====
